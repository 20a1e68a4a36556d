---------------------- MODULE PunishmentIncidentProofs ----------------------
(***************************************************************************)
(* What holds of PunishmentIncident for every set of users and callers,    *)
(* every ladder of steps and every disturbance: an incident is counted     *)
(* once, a claim protects what it should, and the steps come in order.     *)
(***************************************************************************)
EXTENDS PunishmentIncident, SequenceTheorems, TLAPS

PCs == {"idle", "select", "apply", "mark", "record", "confirm", "commit", "save"}

Steps == 0..LastStep
Incidents == [inc : Nat, step : Steps]
Calls == [pc : PCs, user : Users \cup {CallIdle.user}, inc : Nat, step : Steps]

TypeOK ==
  /\ inFlight \in SUBSET Users
  /\ unrecorded \in [Users -> Incidents]
  /\ recorded \in SUBSET Users
  /\ unconfirmed \in SUBSET Users
  /\ cache \in [Users -> Nat]
  /\ file \in [Users -> Nat]
  /\ rows \in [Users -> Seq(Incidents)]
  /\ call \in [Callers -> Calls]
  /\ started \in Nat
  /\ torn \in BOOLEAN

Active(c) == call[c].pc # "idle"

\* The row of an incident is in the history of the user.
Has(u, k) == \E i \in 1..Len(rows[u]) : rows[u][i].inc = k

\* A call in progress has a user, and the only claim on that user.
ClaimInv ==
  /\ \A c \in Callers : Active(c) => call[c].user \in inFlight
  /\ \A c, d \in Callers : Active(c) /\ Active(d) /\ call[c].user = call[d].user => c = d
  /\ ClaimsHeld

\* Of a user: incidents are numbered from 1 in the order in which they start, a pending
\* one that has its row is known to have it, or perhaps to have it, and none has two.
UserInv(u) ==
  /\ unrecorded[u].inc \in 0..started
  /\ \A i \in 1..Len(rows[u]) : rows[u][i].inc \in 1..started
  /\ unrecorded[u].inc # 0 /\ Has(u, unrecorded[u].inc) => u \in recorded \cup unconfirmed
  /\ \A i, j \in 1..Len(rows[u]) : rows[u][i].inc = rows[u][j].inc => i = j

\* A call that may still insert a row.
MayInsert(c) ==
  \/ call[c].pc \in {"select", "apply", "mark", "commit"}
  \/ call[c].pc = "record" /\ unrecorded[call[c].user].inc = 0

\* Of a call: the ledger of its user holds its incident, or nothing, and nothing before
\* the panel action; what it may still insert has no row.
CallInv(c) ==
  LET u == call[c].user IN
  Active(c) =>
    /\ call[c].inc \in 1..started
    /\ \/ unrecorded[u].inc = 0
       \/ unrecorded[u].inc = call[c].inc /\ unrecorded[u].step = call[c].step
    /\ call[c].pc \in {"select", "apply"} => unrecorded[u].inc = 0
    /\ call[c].pc = "confirm" => unrecorded[u].inc # 0 /\ u \notin recorded
    /\ call[c].pc = "save" => unrecorded[u].inc = 0 \/ u \in recorded
    /\ MayInsert(c) => ~Has(u, call[c].inc)

IncidentInv ==
  /\ TypeOK /\ ClaimInv
  /\ \A u \in Users : UserInv(u)
  /\ \A c \in Callers : CallInv(c)

StepAt(n) == IF n < LastStep THEN n ELSE LastStep

\* The row of the pending incident is there, and the mirror does not know it yet.
Uncounted(u) == unrecorded[u].inc # 0 /\ Has(u, unrecorded[u].inc) /\ u \notin recorded

\* The mirror counts the rows of a user, which are in order, and a pending incident that
\* has no row yet carries the step its row will have.
UserOrder(u) ==
  /\ Len(rows[u]) = IF Uncounted(u) THEN cache[u] + 1 ELSE cache[u]
  /\ u \in recorded => unrecorded[u].inc # 0 /\ Has(u, unrecorded[u].inc)
  /\ unrecorded[u].inc # 0 /\ ~Has(u, unrecorded[u].inc) => unrecorded[u].step = StepAt(Len(rows[u]))
  /\ \A i \in 1..Len(rows[u]) : rows[u][i].step = StepAt(i - 1)

\* So does a call, and what is recorded without the ledger is a warning.
CallOrder(c) ==
  /\ call[c].pc \in {"apply", "mark", "record", "confirm", "commit"} /\ ~Has(call[c].user, call[c].inc) =>
       call[c].step = StepAt(Len(rows[call[c].user]))
  /\ call[c].pc \in {"record", "commit"} /\ unrecorded[call[c].user].inc = 0 => call[c].step \in WarningSteps

OrderInv == ~torn => (\A u \in Users : UserOrder(u)) /\ (\A c \in Callers : CallOrder(c))

----------------------------------------------------------------------------

\* The values the handlers reset to are well typed.
LEMMA IdleTypes == CallIdle \in Calls /\ NoIncident \in Incidents /\ CallIdle.pc = "idle" /\ NoIncident.inc = 0
  BY ConstantsAssumption DEF CallIdle, NoIncident, Calls, Incidents, Steps, PCs

LEMMA InitTypes == ASSUME Init PROVE TypeOK
  <1>1. <<>> \in Seq(Incidents)
    BY EmptySeq
  <1>2. rows \in [Users -> Seq(Incidents)]
    BY <1>1 DEF Init
  <1>3. call \in [Callers -> Calls] /\ unrecorded \in [Users -> Incidents]
    BY IdleTypes DEF Init
  <1>4. QED
    BY <1>2, <1>3 DEF Init, TypeOK

\* What an insert makes of the history of a user.
LEMMA Inserted ==
  ASSUME TypeOK, NEW c \in Callers, NEW u \in Users, u = call[c].user, Insert(c)
  PROVE  /\ Len(rows[u]) \in Nat
         /\ rows' \in [Users -> Seq(Incidents)]
         /\ \A v \in Users : v # u => rows'[v] = rows[v]
         /\ Len(rows'[u]) = Len(rows[u]) + 1
         /\ \A i \in 1..Len(rows[u]) : rows'[u][i] = rows[u][i]
         /\ rows'[u][Len(rows[u]) + 1].inc = call[c].inc
         /\ rows'[u][Len(rows[u]) + 1].step = call[c].step
  <1> DEFINE row == [inc |-> call[c].inc, step |-> call[c].step]
  <1>1. row \in Incidents /\ rows[u] \in Seq(Incidents) /\ row.inc = call[c].inc /\ row.step = call[c].step
    BY DEF TypeOK, Calls, Incidents
  <1>2. rows' = [rows EXCEPT ![u] = Append(rows[u], row)]
    BY DEF Insert
  <1> HIDE DEF row
  <1>3. /\ Append(rows[u], row) \in Seq(Incidents)
        /\ Len(Append(rows[u], row)) = Len(rows[u]) + 1
        /\ \A i \in 1..Len(rows[u]) : Append(rows[u], row)[i] = rows[u][i]
        /\ Append(rows[u], row)[Len(rows[u]) + 1] = row
    BY <1>1, AppendProperties
  <1>4. Len(rows[u]) \in Nat
    BY <1>1, LenProperties
  <1>5. rows'[u] = Append(rows[u], row) /\ \A v \in Users : v # u => rows'[v] = rows[v]
    BY <1>2 DEF TypeOK
  <1>6. rows' \in [Users -> Seq(Incidents)]
    BY <1>2, <1>3 DEF TypeOK
  <1>7. QED
    BY <1>1, <1>3, <1>4, <1>5, <1>6

\* Every step of a call keeps the types.
LEMMA StepTypes == ASSUME TypeOK, NEW c \in Callers, Step(c), call[c].user \in Users PROVE TypeOK'
  <1> DEFINE u == call[c].user
  <1>0. /\ call[c] \in Calls /\ unrecorded[u] \in Incidents
        /\ [inc |-> call[c].inc, step |-> call[c].step] \in Incidents
    BY DEF TypeOK, Calls, Incidents
  <1>1. torn' \in BOOLEAN /\ started' \in Nat
    BY DEF TypeOK, Step, Select, Apply, ApplyGone, ApplyFails, Mark, Record, Confirm, ConfirmFails, Commit,
           CommitThenRaises, CommitUnknown, CommitFails, SaveAndPop, Cancel, memVars
  <1>2. inFlight' \in SUBSET Users /\ recorded' \in SUBSET Users /\ unconfirmed' \in SUBSET Users
    BY DEF TypeOK, Step, Select, Apply, ApplyGone, ApplyFails, Mark, Record, Confirm, ConfirmFails, Commit,
           CommitThenRaises, CommitUnknown, CommitFails, SaveAndPop, Cancel, memVars, Leave, MarkUnrecorded, Remember
  <1>3. unrecorded' \in [Users -> Incidents]
    BY <1>0, IdleTypes DEF TypeOK, Step, Select, Apply, ApplyGone, ApplyFails, Mark, Record, Confirm, ConfirmFails, Commit,
           CommitThenRaises, CommitUnknown, CommitFails, SaveAndPop, Cancel, memVars, MarkUnrecorded
  <1>4. cache' \in [Users -> Nat]
    <2>1. cache' = cache \/ cache' = [cache EXCEPT ![u] = @ + 1]
      BY DEF Step, Select, Apply, ApplyGone, ApplyFails, Mark, Record, Confirm, ConfirmFails, Commit,
             CommitThenRaises, CommitUnknown, CommitFails, SaveAndPop, Cancel, memVars, Remember
    <2>2. cache \in [Users -> Nat]
      BY DEF TypeOK
    <2>3. QED
      BY <2>1, <2>2
  <1>8. file' \in [Users -> Nat]
    BY <1>4 DEF TypeOK, Step, Select, Apply, ApplyGone, ApplyFails, Mark, Record, Confirm, ConfirmFails, Commit,
           CommitThenRaises, CommitUnknown, CommitFails, SaveAndPop, Cancel, memVars, SaveMirror
  <1>5. rows' \in [Users -> Seq(Incidents)]
    <2>1. CASE Insert(c)
      BY <2>1, Inserted
    <2>2. CASE rows' = rows
      BY <2>2 DEF TypeOK
    <2>3. QED
      BY <2>1, <2>2 DEF Step, Select, Apply, ApplyGone, ApplyFails, Mark, Record, Confirm, ConfirmFails, Commit,
           CommitThenRaises, CommitUnknown, CommitFails, SaveAndPop, Cancel
  <1>6. call' \in [Callers -> Calls]
    <2>1. CASE Select(c)
      <3>1. \A n \in Nat : (IF n < LastStep THEN n ELSE LastStep) \in Steps
        BY ConstantsAssumption DEF Steps
      <3>2. Len(rows[u]) \in Nat /\ cache[u] \in Nat
        BY DEF TypeOK
      <3>3. PICK step \in Steps : call' = [call EXCEPT ![c].step = step,
                        ![c].pc = IF step \in WarningSteps THEN "record" ELSE "apply"]
        BY <2>1, <3>1, <3>2 DEF Select
      <3>4. QED
        BY <1>0, <3>3 DEF TypeOK, Calls, PCs
    <2>2. CASE call' = [call EXCEPT ![c] = CallIdle]
      BY <2>2, IdleTypes DEF TypeOK
    <2>3. ASSUME NEW pc \in PCs, Goto(c, pc) PROVE call' \in [Callers -> Calls]
      BY <1>0, <2>3 DEF TypeOK, Goto, Calls
    <2>4. QED
      BY <2>1, <2>2, <2>3 DEF Step, Apply, ApplyGone, ApplyFails, Mark, Record, Confirm, ConfirmFails, Commit,
           CommitThenRaises, CommitUnknown, CommitFails, SaveAndPop, Cancel, Leave, PCs
  <1>7. QED
    BY <1>1, <1>2, <1>3, <1>4, <1>5, <1>6, <1>8 DEF TypeOK

\* The initial state satisfies both invariants.
LEMMA InitInv == ASSUME Init PROVE IncidentInv /\ OrderInv
  <1>1. TypeOK
    BY InitTypes
  <1>2. \A u \in Users : rows[u] = <<>> /\ unrecorded[u].inc = 0 /\ cache[u] = 0 /\ Len(rows[u]) = 0
    BY IdleTypes, EmptySeq DEF Init
  <1>3. \A c \in Callers : call[c].pc = "idle"
    BY IdleTypes DEF Init
  <1>4. ClaimInv
    BY <1>3 DEF Init, ClaimInv, ClaimsHeld, Active
  <1>5. \A u \in Users : UserInv(u) /\ UserOrder(u)
    BY <1>2 DEF Init, UserInv, UserOrder, Uncounted, Has
  <1>6. QED
    BY <1>1, <1>3, <1>4, <1>5 DEF IncidentInv, OrderInv, CallInv, CallOrder, Active

\* A call touches what belongs to its user and itself only.
Local(c) ==
  /\ \A v \in Users : v # call[c].user =>
       /\ rows'[v] = rows[v] /\ unrecorded'[v] = unrecorded[v] /\ cache'[v] = cache[v]
       /\ (v \in recorded') = (v \in recorded) /\ (v \in unconfirmed') = (v \in unconfirmed)
  /\ \A d \in Callers : d # c => call'[d] = call[d]
  /\ started' = started

\* It goes on with the same user and incident, or ends and gives back its claim.
GoesOn(c) == /\ call'[c].pc # "idle" /\ call'[c].user = call[c].user /\ call'[c].inc = call[c].inc
             /\ inFlight' = inFlight
Ends(c) == call'[c].pc = "idle" /\ inFlight' = inFlight \ {call[c].user}

LEMMA StepLocal ==
  ASSUME IncidentInv, NEW c \in Callers, Step(c)
  PROVE  Active(c) /\ call[c].user \in Users /\ Local(c) /\ (GoesOn(c) \/ Ends(c))
  <1>0. TypeOK /\ CallIdle.pc = "idle"
    BY IdleTypes DEF IncidentInv
  <1>1. Active(c) /\ call[c].user \in Users
    <2>1. Active(c)
      BY DEF Step, Active, Select, Apply, ApplyGone, ApplyFails, Mark, Record, Confirm, ConfirmFails, Commit,
           CommitThenRaises, CommitUnknown, CommitFails, SaveAndPop, Cancel
    <2>2. QED
      BY <2>1 DEF IncidentInv, ClaimInv, TypeOK
  <1>2. \A v \in Users : v # call[c].user => rows'[v] = rows[v]
    <2>1. rows' = rows \/ Insert(c)
      BY DEF Step, Select, Apply, ApplyGone, ApplyFails, Mark, Record, Confirm, ConfirmFails, Commit,
             CommitThenRaises, CommitUnknown, CommitFails, SaveAndPop, Cancel, memVars
    <2>2. QED
      BY <1>0, <2>1 DEF TypeOK, Insert
  <1>3. \A v \in Users : v # call[c].user => unrecorded'[v] = unrecorded[v] /\ cache'[v] = cache[v]
    BY <1>0, <1>1 DEF TypeOK, Step, Select, Apply, ApplyGone, ApplyFails, Mark, Record, Confirm, ConfirmFails, Commit,
           CommitThenRaises, CommitUnknown, CommitFails, SaveAndPop, Cancel, memVars, MarkUnrecorded, Remember
  <1>4. \A v \in Users : v # call[c].user =>
           (v \in recorded') = (v \in recorded) /\ (v \in unconfirmed') = (v \in unconfirmed)
    BY <1>0, <1>1 DEF TypeOK, Step, Select, Apply, ApplyGone, ApplyFails, Mark, Record, Confirm, ConfirmFails, Commit,
           CommitThenRaises, CommitUnknown, CommitFails, SaveAndPop, Cancel, memVars, MarkUnrecorded, Remember
  <1>5. started' = started
    BY DEF Step, Select, Apply, ApplyGone, ApplyFails, Mark, Record, Confirm, ConfirmFails, Commit,
           CommitThenRaises, CommitUnknown, CommitFails, SaveAndPop, Cancel
  <1>6. (\A d \in Callers : d # c => call'[d] = call[d]) /\ (GoesOn(c) \/ Ends(c))
    <2>1. CASE Leave(c)
      BY <2>1, <1>0 DEF Leave, Ends, TypeOK
    <2>2. ASSUME NEW pc \in PCs \ {"idle"}, Goto(c, pc), inFlight' = inFlight
          PROVE (\A d \in Callers : d # c => call'[d] = call[d]) /\ GoesOn(c)
      BY <2>2, <1>0 DEF Goto, GoesOn, TypeOK, Calls
    <2>3. CASE Select(c)
      BY <2>3, <1>0 DEF Select, GoesOn, TypeOK, Calls, memVars
    <2>4. QED
      BY <2>1, <2>2, <2>3 DEF Step, Apply, ApplyGone, ApplyFails, Mark, Record, Confirm, ConfirmFails, Commit,
           CommitThenRaises, CommitUnknown, CommitFails, SaveAndPop, Cancel, PCs, memVars, Remember
  <1>7. QED
    BY <1>1, <1>2, <1>3, <1>4, <1>5, <1>6 DEF Local

\* The claims stay exclusive, and none is left behind.
LEMMA StepClaims ==
  ASSUME IncidentInv, NEW c \in Callers, Step(c)
  PROVE  ClaimInv'
  <1> DEFINE u == call[c].user
  <1>1. Active(c) /\ u \in Users /\ Local(c) /\ (GoesOn(c) \/ Ends(c))
    BY StepLocal
  <1>2. ClaimInv
    BY DEF IncidentInv
  <1>3. \A d \in Callers : d # c => call'[d] = call[d]
    BY <1>1 DEF Local
  <1>4. CASE GoesOn(c)
    BY <1>1, <1>2, <1>3, <1>4 DEF GoesOn, ClaimInv, ClaimsHeld, Active
  <1>5. CASE Ends(c)
    BY <1>1, <1>2, <1>3, <1>5 DEF Ends, ClaimInv, ClaimsHeld, Active
  <1>6. QED
    BY <1>1, <1>4, <1>5

\* It remains to look at the call that makes the step, and at its user.
LEMMA StepReduces ==
  ASSUME IncidentInv, NEW c \in Callers, Step(c),
         NEW u \in Users, u = call[c].user, UserInv(u)', CallInv(c)'
  PROVE  IncidentInv'
  <1>1. Active(c) /\ u \in Users /\ Local(c)
    BY StepLocal
  <1>2. TypeOK'
    BY <1>1, StepTypes DEF IncidentInv
  <1>3. ClaimInv'
    BY StepClaims
  <1>4. ASSUME NEW v \in Users PROVE UserInv(v)'
    <2>1. CASE v # u
      <3>1. UserInv(v)
        BY DEF IncidentInv
      <3>2. QED
        BY <1>1, <2>1, <3>1 DEF Local, UserInv, Has
    <2>2. CASE v = u
      BY <2>2
    <2>3. QED
      BY <2>1, <2>2
  <1>5. ASSUME NEW d \in Callers PROVE CallInv(d)'
    <2>1. CASE d # c
      <3>1. call'[d] = call[d] /\ started' = started
        BY <1>1, <2>1 DEF Local
      <3>2. CASE ~Active(d)
        BY <3>1, <3>2 DEF CallInv, Active
      <3>3. CASE Active(d)
        <4>1. call[d].user # u /\ call[d].user \in Users
          BY <1>1, <2>1, <3>3 DEF IncidentInv, ClaimInv, TypeOK
        <4>2. CallInv(d)
          BY DEF IncidentInv
        <4>3. QED
          BY <1>1, <3>1, <4>1, <4>2 DEF Local, CallInv, MayInsert, Active, Has
      <3>4. QED
        BY <3>2, <3>3
    <2>2. QED
      BY <2>1
  <1>6. QED
    BY <1>2, <1>3, <1>4, <1>5 DEF IncidentInv

\* A call that ends leaves only its user to look at.
LEMMA EndsCall == ASSUME NEW c \in Callers, Ends(c) PROVE CallInv(c)' /\ CallOrder(c)'
  BY DEF Ends, CallInv, CallOrder, Active

\* One step of a call keeps the invariant.
LEMMA StepInv == ASSUME IncidentInv, NEW c \in Callers, Step(c) PROVE IncidentInv'
  <1>u. PICK u \in Users : u = call[c].user
    BY StepLocal
  <1>k. PICK k \in Nat : k = call[c].inc
    BY StepLocal DEF IncidentInv, TypeOK, Calls
  <1> USE <1>u, <1>k
  <1>0. /\ TypeOK /\ TypeOK' /\ Active(c) /\ u \in Users /\ Local(c) /\ (GoesOn(c) \/ Ends(c))
        /\ UserInv(u) /\ CallInv(c)
    BY <1>u, StepLocal, StepTypes DEF IncidentInv
  <1>a. call[c] \in Calls /\ unrecorded[u] \in Incidents /\ started \in Nat /\ started' = started /\ Len(rows[u]) \in Nat
    BY <1>0, LenProperties DEF TypeOK, Local
  <1>b. Leave(c) => CallInv(c)'
    <2>1. Leave(c) => Ends(c)
      BY <1>0, IdleTypes DEF Leave, Ends, TypeOK
    <2>2. QED
      BY <2>1, EndsCall
  <1>c. ASSUME NEW pc \in PCs, Goto(c, pc) PROVE call'[c] = [call[c] EXCEPT !.pc = pc]
    BY <1>0, <1>c DEF Goto, TypeOK
  <1> SUFFICES UserInv(u)' /\ CallInv(c)'
    BY <1>u, StepReduces
  <1>1. CASE UNCHANGED <<unrecorded, recorded, unconfirmed, rows>> /\ Leave(c)
    BY <1>0, <1>a, <1>b, <1>1 DEF UserInv, Has
  <1>2. CASE Select(c)
    <2>1. UserInv(u)'
      BY <1>0, <1>a, <1>2 DEF Select, UserInv, Has, memVars
    <2>2. call'[c].pc \in {"record", "apply"} /\ call'[c].user = u /\ call'[c].inc = k
      BY <1>0, <1>2 DEF Select, TypeOK
    <2>3. unrecorded' = unrecorded /\ rows' = rows /\ call[c].pc = "select"
      BY <1>2 DEF Select, memVars
    <2>4. ~Has(u, k)' /\ unrecorded[u].inc = 0 /\ k \in 1..started
      BY <1>0, <2>3 DEF CallInv, MayInsert, Active, Has
    <2>5. CallInv(c)'
      BY <1>a, <2>2, <2>3, <2>4 DEF CallInv
    <2>6. QED
      BY <2>1, <2>5
  <1>3. CASE Apply(c) \/ Mark(c)
    <2>1. MarkUnrecorded(c) /\ rows' = rows
      BY <1>3 DEF Apply, Mark
    <2>2. ~Has(u, k) /\ k \in 1..started
      BY <1>0, <1>3 DEF CallInv, MayInsert, Apply, Mark
    <2>3. unrecorded'[u] = [inc |-> k, step |-> call[c].step]
      BY <1>0, <2>1 DEF MarkUnrecorded, TypeOK
    <2>4. UserInv(u)'
      <3>1. unrecorded'[u].inc = k /\ ~Has(u, k)'
        BY <2>1, <2>2, <2>3 DEF Has
      <3>2. k \in 0..started /\ started' = started
        BY <1>a, <2>2
      <3>3. QED
        BY <1>0, <2>1, <3>1, <3>2 DEF UserInv
    <2>5. call'[c].pc \in {"mark", "record"} /\ call'[c].user = u /\ call'[c].inc = k /\ call'[c].step = call[c].step
      BY <1>c, <1>3, <1>a DEF Apply, Mark, PCs, Calls
    <2>6. CallInv(c)'
      BY <1>a, <2>1, <2>2, <2>3, <2>5 DEF CallInv, MayInsert, Active, Has
    <2>7. QED
      BY <2>4, <2>6
  <1>4. CASE ApplyGone(c) \/ Record(c)
    <2>1. UNCHANGED <<unrecorded, recorded, unconfirmed, rows>>
      BY <1>4 DEF ApplyGone, Record, memVars
    <2>2. UserInv(u)'
      BY <1>0, <1>a, <2>1 DEF UserInv, Has
    <2>3. CASE ApplyGone(c)
      <3>1. call'[c].pc = "mark" /\ call'[c].user = u /\ call'[c].inc = k /\ call'[c].step = call[c].step
        BY <1>c, <2>3, <1>a DEF ApplyGone, PCs, Calls
      <3>2. QED
        BY <1>0, <1>a, <2>1, <2>2, <2>3, <3>1 DEF ApplyGone, CallInv, MayInsert, Active, Has
    <2>4. CASE Record(c)
      <3> DEFINE pc == CASE IsPending(c) /\ u \in recorded -> "save"
                         [] IsPending(c) /\ u \notin recorded /\ u \in unconfirmed -> "confirm"
                         [] OTHER -> "commit"
      <3>1. pc \in PCs /\ Goto(c, pc)
        BY <2>4 DEF Record, PCs
      <3>2. call'[c].pc = pc /\ call'[c].user = u /\ call'[c].inc = k /\ call'[c].step = call[c].step
        BY <1>c, <3>1, <1>a DEF Calls
      <3>3. IsPending(c) = (unrecorded[u].inc # 0)
        BY <1>0, <1>a DEF IsPending, CallInv
      <3>4. pc = "commit" => ~Has(u, k)
        BY <1>0, <1>a, <2>4, <3>3 DEF Record, CallInv, MayInsert, UserInv
      <3>5. CallInv(c)'
        BY <1>0, <1>a, <2>1, <3>2, <3>3, <3>4 DEF CallInv, MayInsert, Active, Has
      <3>6. QED
        BY <2>2, <3>5
    <2>5. QED
      BY <1>4, <2>3, <2>4
  <1>5. CASE Confirm(c)
    <2>1. unrecorded' = unrecorded /\ rows' = rows
      BY <1>5 DEF Confirm
    <2>2. unrecorded[u].inc = k /\ IsPending(c)
      BY <1>0, <1>a, <1>5 DEF Confirm, CallInv, IsPending
    <2>3. Persisted(c) = Has(u, k)
      BY DEF Persisted, Has
    <2>4. CASE Has(u, k)
      <3>1. recorded' = recorded \cup {u} /\ call'[c].pc = "save" /\ call'[c].user = u
            /\ call'[c].inc = k /\ call'[c].step = call[c].step
        BY <1>5, <1>c, <1>a, <2>2, <2>3, <2>4 DEF Confirm, Remember, PCs, Calls
      <3>2. QED
        BY <1>0, <1>a, <2>1, <3>1 DEF UserInv, CallInv, MayInsert, Active, Has
    <2>5. CASE ~Has(u, k)
      <3>1. recorded' = recorded /\ call'[c].pc = "commit" /\ call'[c].user = u
            /\ call'[c].inc = k /\ call'[c].step = call[c].step
        BY <1>5, <1>c, <1>a, <2>2, <2>3, <2>5 DEF Confirm, PCs, Calls
      <3>2. QED
        BY <1>0, <1>a, <2>1, <2>2, <2>5, <3>1 DEF UserInv, CallInv, MayInsert, Active, Has
    <2>6. QED
      BY <2>4, <2>5
  <1>6. CASE Commit(c) \/ CommitThenRaises(c) \/ CommitUnknown(c)
    <2>1. ~Has(u, k) /\ k \in 1..started /\ unrecorded' = unrecorded /\ recorded \subseteq recorded'
      BY <1>0, <1>6 DEF CallInv, MayInsert, Commit, CommitThenRaises, CommitUnknown, Remember
    <2>2. IsPending(c) = (unrecorded[u].inc # 0)
      BY <1>0, <1>a, <1>6 DEF IsPending, CallInv, Commit, CommitThenRaises, CommitUnknown
    <2>3. unrecorded[u].inc # 0 => unrecorded[u].inc = k /\ u \in recorded' \cup unconfirmed'
      BY <1>0, <1>6, <2>2 DEF CallInv, Commit, CommitThenRaises, CommitUnknown, Remember
    <2>4. UserInv(u)'
      <3>1. CASE Insert(c)
        <4> DEFINE n == Len(rows[u])
        <4>1. /\ Len(rows'[u]) = n + 1 /\ n \in Nat
              /\ \A i \in 1..n : rows'[u][i] = rows[u][i]
              /\ rows'[u][n + 1].inc = k
          BY <3>1, <1>0, Inserted
        <4>2. \A i \in 1..n : rows[u][i].inc # k
          BY <2>1 DEF Has
        <4>3. \A i \in 1..n + 1 : i \in 1..n \/ i = n + 1
          BY <4>1
        <4>4. \A i, j \in 1..Len(rows'[u]) : rows'[u][i].inc = rows'[u][j].inc => i = j
          <5>1. SUFFICES ASSUME NEW i \in 1..n + 1, NEW j \in 1..n + 1, rows'[u][i].inc = rows'[u][j].inc
                         PROVE  i = j
            BY <4>1
          <5>2. CASE i \in 1..n /\ j \in 1..n
            BY <1>0, <4>1, <5>1, <5>2 DEF UserInv
          <5>3. CASE i = n + 1 \/ j = n + 1
            BY <4>1, <4>2, <4>3, <5>1, <5>3
          <5>4. QED
            BY <4>3, <5>2, <5>3
        <4>5. \A i \in 1..Len(rows'[u]) : rows'[u][i].inc \in 1..started
          BY <1>0, <2>1, <4>1, <4>3 DEF UserInv
        <4>6. QED
          BY <1>0, <1>a, <2>1, <2>3, <4>4, <4>5 DEF UserInv
      <3>2. CASE rows' = rows
        BY <1>0, <1>a, <2>1, <2>3, <3>2 DEF UserInv, Has
      <3>3. QED
        BY <1>6, <3>1, <3>2 DEF Commit, CommitThenRaises, CommitUnknown
    <2>5. CallInv(c)'
      <3>1. CASE Commit(c)
        <4>1. call'[c].pc = "save" /\ call'[c].user = u /\ call'[c].inc = k /\ call'[c].step = call[c].step
          BY <3>1, <1>c, <1>a DEF Commit, PCs, Calls
        <4>2. unrecorded[u].inc # 0 => u \in recorded'
          BY <3>1, <2>2 DEF Commit, Remember
        <4>3. QED
          BY <1>0, <1>a, <2>1, <4>1, <4>2, <3>1 DEF CallInv, MayInsert, Active, Commit
      <3>2. CASE CommitThenRaises(c) \/ CommitUnknown(c)
        BY <3>2, <1>b DEF CommitThenRaises, CommitUnknown
      <3>3. QED
        BY <1>6, <3>1, <3>2
    <2>6. QED
      BY <2>4, <2>5
  <1>7. CASE SaveAndPop(c)
    <2>1. unrecorded'[u].inc = 0 /\ rows' = rows
      BY <1>0, <1>7, IdleTypes DEF SaveAndPop, TypeOK
    <2>2. QED
      <3>1. UserInv(u)'
        <4>1. rows'[u] = rows[u] /\ 0 \in 0..started
          BY <1>a, <2>1
        <4>2. \A i \in 1..Len(rows[u]) : rows[u][i].inc \in 1..started
          BY <1>0 DEF UserInv
        <4>3. \A i, j \in 1..Len(rows[u]) : rows[u][i].inc = rows[u][j].inc => i = j
          BY <1>0 DEF UserInv
        <4>4. QED
          BY <1>a, <2>1, <4>1, <4>2, <4>3 DEF UserInv
      <3>2. QED
        BY <1>b, <1>7, <3>1 DEF SaveAndPop
  <1>8. QED
    BY <1>1, <1>2, <1>3, <1>4, <1>5, <1>6, <1>7
       DEF Step, ApplyFails, ConfirmFails, CommitFails, Cancel

\* A claimed user: the call takes up the pending incident, or a new one.
LEMMA BeginInv ==
  ASSUME IncidentInv, NEW c \in Callers, NEW u \in Users, Begin(c, u), UNCHANGED torn
  PROVE  IncidentInv' /\ (OrderInv => OrderInv')
  <1>0. /\ TypeOK /\ ClaimInv /\ ~Active(c) /\ u \notin inFlight /\ inFlight' = inFlight \cup {u}
        /\ UNCHANGED <<unrecorded, recorded, unconfirmed, cache, file, rows, committed>>
    BY DEF IncidentInv, Begin, Claimed, Active
  <1>1. started \in Nat /\ started' \in Nat /\ started <= started'
    BY <1>0 DEF TypeOK, Begin, Claimed
  <1>a. PICK r \in Calls : call' = [call EXCEPT ![c] = r] /\ r.user = u /\ r.pc \in {"record", "select"}
    <2>1. [pc |-> "record", user |-> u, inc |-> unrecorded[u].inc, step |-> unrecorded[u].step] \in Calls
      BY <1>0 DEF TypeOK, Calls, Incidents, PCs
    <2>2. [pc |-> "select", user |-> u, inc |-> started + 1, step |-> 0] \in Calls
      BY <1>1, ConstantsAssumption DEF Calls, Steps, PCs
    <2>3. QED
      BY <2>1, <2>2 DEF Begin, Claimed
  <1>2. call'[c] = r /\ call'[c].user = u /\ call'[c].pc \in {"record", "select"}
    BY <1>0, <1>a DEF TypeOK
  <1>3. \A d \in Callers : d # c => call'[d] = call[d]
    BY <1>0, <1>a DEF TypeOK
  <1>4. call' \in [Callers -> Calls]
    BY <1>0, <1>a DEF TypeOK
  <1>5. TypeOK'
    BY <1>0, <1>1, <1>4 DEF TypeOK, Begin
  <1>6. ClaimInv'
    BY <1>0, <1>2, <1>3 DEF ClaimInv, ClaimsHeld, Active
  <1>7. \A v \in Users : UserInv(v)'
    <2>1. TAKE v \in Users
    <2>2. UserInv(v) /\ unrecorded[v].inc \in Nat
      BY <1>0 DEF IncidentInv, TypeOK, Incidents
    <2>3. QED
      BY <1>0, <1>1, <2>2 DEF UserInv, Has
  <1>8. UserInv(u)
    BY DEF IncidentInv
  <1>9. /\ call'[c].pc = "record" => unrecorded[u].inc # 0 /\ call'[c].inc = unrecorded[u].inc
                                      /\ call'[c].step = unrecorded[u].step
        /\ call'[c].pc = "select" => unrecorded[u].inc = 0 /\ call'[c].inc = started + 1 /\ started' = started + 1
    BY <1>0 DEF TypeOK, Begin, Claimed
  <1>10. CallInv(c)'
    <2>1. CASE call'[c].pc = "record"
      BY <1>0, <1>1, <1>2, <1>8, <1>9, <2>1 DEF UserInv, CallInv, MayInsert
    <2>2. CASE call'[c].pc = "select"
      BY <1>0, <1>1, <1>2, <1>8, <1>9, <2>2 DEF UserInv, CallInv, MayInsert, Has
    <2>3. QED
      BY <1>2, <2>1, <2>2
  <1>11. ASSUME NEW d \in Callers, d # c PROVE CallInv(d)'
    <2>1. CallInv(d) /\ call'[d] = call[d]
      BY <1>3, <1>11 DEF IncidentInv
    <2>2. QED
      BY <1>0, <1>1, <2>1 DEF CallInv, MayInsert, Active, Has
  <1>12. IncidentInv'
    BY <1>5, <1>6, <1>7, <1>10, <1>11 DEF IncidentInv
  <1>13. ASSUME OrderInv PROVE OrderInv'
    <2> SUFFICES ASSUME ~torn PROVE (\A v \in Users : UserOrder(v)') /\ (\A d \in Callers : CallOrder(d)')
      BY <1>13 DEF OrderInv
    <2>1. (\A v \in Users : UserOrder(v)) /\ (\A d \in Callers : CallOrder(d))
      BY <1>13 DEF OrderInv
    <2>2. \A v \in Users : UserOrder(v)'
      BY <1>0, <2>1 DEF UserOrder, Uncounted, Has
    <2>3. CallOrder(c)'
      BY <1>0, <1>2, <1>9, <2>1 DEF CallOrder, UserOrder, Has
    <2>4. \A d \in Callers : d # c => CallOrder(d)'
      BY <1>0, <1>3, <2>1 DEF CallOrder, Has
    <2>5. QED
      BY <2>2, <2>3, <2>4
  <1>14. QED
    BY <1>12, <1>13

\* Clearing the history takes rows away and no more.
LEMMA ClearInv == ASSUME IncidentInv, NEW u \in Users, ClearHistory(u) PROVE IncidentInv' /\ OrderInv'
  <1>0. /\ UNCHANGED <<inFlight, unrecorded, recorded, unconfirmed, call, started, committed>>
        /\ TypeOK /\ ClaimInv
    BY DEF ClearHistory, IncidentInv
  <1>1. rows' \in [Users -> Seq(Incidents)] /\ \A v \in Users : rows'[v] = rows[v] \/ rows'[v] = <<>>
    BY <1>0, EmptySeq DEF ClearHistory, TypeOK
  <1>2. cache' \in [Users -> Nat]
    BY <1>0 DEF ClearHistory, TypeOK
  <1>3. file' \in [Users -> Nat]
    BY <1>0, <1>2 DEF ClearHistory, SaveMirror, TypeOK
  <1>4. torn'
    BY DEF ClearHistory
  <1>5. TypeOK'
    BY <1>0, <1>1, <1>2, <1>3, <1>4 DEF TypeOK, ClearHistory
  <1>6. \A v \in Users : \/ rows'[v] = rows[v]
                         \/ Len(rows'[v]) = 0
    BY <1>1, EmptySeq
  <1>7. \A v \in Users, k \in Nat : Has(v, k)' => Has(v, k)
    BY <1>6 DEF Has
  <1>8. ASSUME NEW v \in Users PROVE UserInv(v)'
    <2>1. UserInv(v) /\ unrecorded[v].inc \in Nat
      BY <1>0 DEF IncidentInv, TypeOK, Incidents
    <2>2. QED
      BY <1>0, <1>6, <1>7, <2>1 DEF UserInv
  <1>9. ASSUME NEW c \in Callers PROVE CallInv(c)'
    <2>1. CallInv(c) /\ call[c].inc \in Nat
      BY <1>0 DEF IncidentInv, TypeOK, Calls
    <2>2. CASE ~Active(c)
      BY <1>0, <2>2 DEF CallInv, Active
    <2>3. CASE Active(c)
      <3>1. call[c].user \in Users
        BY <1>0, <2>3 DEF ClaimInv, TypeOK
      <3>2. QED
        BY <1>0, <1>7, <2>1, <3>1 DEF CallInv, MayInsert, Active
    <2>4. QED
      BY <2>2, <2>3
  <1>10. ClaimInv'
    BY <1>0 DEF ClaimInv, ClaimsHeld, Active
  <1>11. QED
    BY <1>4, <1>5, <1>8, <1>9, <1>10 DEF IncidentInv, OrderInv

\* A crash takes every call, claim and ledger entry.
LEMMA CrashInv == ASSUME IncidentInv, Crash PROVE IncidentInv' /\ OrderInv'
  <1>0. TypeOK /\ rows' = rows /\ started' = started /\ torn'
    BY DEF Crash, IncidentInv
  <1>1. (\A c \in Callers : call'[c].pc = "idle") /\ (\A u \in Users : unrecorded'[u].inc = 0)
    BY IdleTypes DEF Crash
  <1>2. call' \in [Callers -> Calls] /\ unrecorded' \in [Users -> Incidents]
    BY IdleTypes DEF Crash
  <1>3. TypeOK'
    BY <1>0, <1>2 DEF TypeOK, Crash
  <1>4. ClaimInv'
    BY <1>1 DEF Crash, ClaimInv, ClaimsHeld, Active
  <1>5. \A c \in Callers : CallInv(c)'
    BY <1>1 DEF CallInv, Active
  <1>6. ASSUME NEW u \in Users PROVE UserInv(u)'
    <2>1. UserInv(u) /\ started \in Nat
      BY <1>0 DEF IncidentInv, TypeOK
    <2>2. QED
      BY <1>0, <1>1, <2>1 DEF UserInv
  <1>7. QED
    BY <1>0, <1>3, <1>4, <1>5, <1>6 DEF IncidentInv, OrderInv

LEMMA StutterInv == ASSUME IncidentInv, UNCHANGED vars PROVE IncidentInv' /\ (OrderInv => OrderInv')
  <1> USE DEF vars, memVars
  <1>1. TypeOK' /\ ClaimInv'
    BY DEF IncidentInv, TypeOK, ClaimInv, ClaimsHeld, Active
  <1>2. \A u \in Users : UserInv(u)'
    BY DEF IncidentInv, UserInv, Has
  <1>4. \A c \in Callers : CallInv(c)'
    BY DEF IncidentInv, CallInv, MayInsert, Active, Has
  <1>3. OrderInv => OrderInv'
    BY DEF OrderInv, UserOrder, CallOrder, Uncounted, Has
  <1>5. QED
    BY <1>1, <1>2, <1>3, <1>4 DEF IncidentInv

LEMMA IncidentInductive == IncidentInv /\ [Next]_vars => IncidentInv'
  <1>1. SUFFICES ASSUME IncidentInv, [Next]_vars PROVE IncidentInv'
    OBVIOUS
  <1>2. QED
    BY <1>1, StepInv, BeginInv, ClearInv, CrashInv, StutterInv DEF Next, Done

LEMMA IncidentAlways == Spec => []IncidentInv
  <1>1. Init => IncidentInv
    BY InitInv
  <1>2. QED
    BY <1>1, IncidentInductive, PTL DEF Spec

\* Every variable keeps its type, for all constants and disturbances.
THEOREM TypeCorrect == Spec => []TypeOK
  <1>1. IncidentInv => TypeOK
    BY DEF IncidentInv
  <1>2. QED
    BY <1>1, IncidentAlways, PTL

\* However often recording an incident failed, raised after its commit, was cancelled
\* or retried, and whoever retried it, the history has at most one row for it.
THEOREM CountedOnce == Spec => []OneRowPerIncident
  <1>1. IncidentInv => OneRowPerIncident
    BY DEF IncidentInv, UserInv, OneRowPerIncident
  <1>2. QED
    BY <1>1, IncidentAlways, PTL

\* Nobody acts against a user whose last action is unrecorded, and no claim is left
\* behind.
THEOREM ClaimsProtect == Spec => []ClaimSound
  <1>1. IncidentInv => ClaimSound
    BY DEF IncidentInv, ClaimInv, CallInv, Active, ClaimSound, NoRepeatWhileUnrecorded
  <1>2. QED
    BY <1>1, IncidentAlways, PTL

\* The step is chosen by the count of the history or, if that fails, of the mirror.
LEMMA Selected ==
  ASSUME NEW c \in Callers, Select(c)
  PROVE  \E count \in {Len(rows[call[c].user]), cache[call[c].user]} :
           call' = [call EXCEPT ![c].step = StepAt(count),
                                ![c].pc = IF StepAt(count) \in WarningSteps THEN "record" ELSE "apply"]
  BY DEF Select, StepAt

\* One step of a call keeps the rows in order.
LEMMA StepOrder == ASSUME IncidentInv, OrderInv, NEW c \in Callers, Step(c) PROVE OrderInv'
  <1>u. PICK u \in Users : u = call[c].user
    BY StepLocal
  <1>k. PICK k \in Nat : k = call[c].inc
    BY StepLocal DEF IncidentInv, TypeOK, Calls
  <1>s. PICK s \in Steps : s = call[c].step
    BY StepLocal DEF IncidentInv, TypeOK, Calls
  <1> USE <1>u, <1>k, <1>s
  <1> SUFFICES ASSUME ~torn' PROVE (\A v \in Users : UserOrder(v)') /\ (\A d \in Callers : CallOrder(d)')
    BY DEF OrderInv
  <1>t. ~torn /\ ~(call[c].pc = "commit" /\ s \in WarningSteps /\ call'[c].pc # "save")
    BY DEF Step
  <1>0. /\ TypeOK /\ Active(c) /\ Local(c) /\ (GoesOn(c) \/ Ends(c))
        /\ UserInv(u) /\ CallInv(c) /\ UserOrder(u) /\ CallOrder(c)
    BY <1>t, StepLocal DEF IncidentInv, OrderInv
  <1>a. call[c] \in Calls /\ unrecorded[u] \in Incidents /\ Len(rows[u]) \in Nat /\ cache[u] \in Nat
    BY <1>0, LenProperties DEF TypeOK
  <1>b. Leave(c) => CallOrder(c)'
    <2>1. Leave(c) => Ends(c)
      BY <1>0, IdleTypes DEF Leave, Ends, TypeOK
    <2>2. QED
      BY <2>1, EndsCall
  <1>c. ASSUME NEW pc \in PCs, Goto(c, pc) PROVE call'[c] = [call[c] EXCEPT !.pc = pc]
    BY <1>0, <1>c DEF Goto, TypeOK
  <1>v. ASSUME NEW v \in Users, v # u PROVE UserOrder(v)'
    <2>1. UserOrder(v)
      BY <1>t DEF OrderInv
    <2>2. /\ rows'[v] = rows[v] /\ unrecorded'[v] = unrecorded[v] /\ cache'[v] = cache[v]
          /\ (v \in recorded') = (v \in recorded) /\ (v \in unconfirmed') = (v \in unconfirmed)
      BY <1>0, <1>v DEF Local
    <2>3. QED
      BY <2>1, <2>2 DEF UserOrder, Uncounted, Has
  <1>d. ASSUME NEW d \in Callers, d # c PROVE CallOrder(d)'
    <2>1. CallOrder(d) /\ call'[d] = call[d]
      BY <1>0, <1>d, <1>t DEF OrderInv, Local
    <2>2. CASE ~Active(d)
      BY <2>1, <2>2 DEF CallOrder, Active
    <2>3. CASE Active(d)
      <3>1. call[d].user # u /\ call[d].user \in Users
        BY <1>0, <1>d, <2>3 DEF IncidentInv, ClaimInv, TypeOK
      <3>2. QED
        BY <1>0, <2>1, <3>1 DEF Local, CallOrder, Has
    <2>4. QED
      BY <2>2, <2>3
  <1> SUFFICES UserOrder(u)' /\ CallOrder(c)'
    BY <1>v, <1>d
  <1>1. CASE UNCHANGED <<unrecorded, recorded, unconfirmed, rows, cache>> /\ Leave(c)
    BY <1>0, <1>b, <1>1 DEF UserOrder, Uncounted, Has
  <1>2. CASE Select(c)
    <2>1. UNCHANGED <<unrecorded, recorded, unconfirmed, rows, cache>> /\ call[c].pc = "select"
      BY <1>2 DEF Select, memVars
    <2>2. UserOrder(u)'
      BY <1>0, <2>1 DEF UserOrder, Uncounted, Has
    <2>3. cache[u] = Len(rows[u])
      BY <1>0, <2>1 DEF UserOrder, Uncounted, CallInv, Active
    <2>4. /\ call' = [call EXCEPT ![c].step = StepAt(Len(rows[u])),
                         ![c].pc = IF StepAt(Len(rows[u])) \in WarningSteps THEN "record" ELSE "apply"]
      <3>1. PICK count \in {Len(rows[u]), cache[u]} :
               call' = [call EXCEPT ![c].step = StepAt(count),
                                    ![c].pc = IF StepAt(count) \in WarningSteps THEN "record" ELSE "apply"]
        BY <1>2, Selected
      <3>2. QED
        BY <2>3, <3>1
    <2>5. /\ call'[c].step = StepAt(Len(rows[u])) /\ call'[c].user = u
          /\ call'[c].pc = IF StepAt(Len(rows[u])) \in WarningSteps THEN "record" ELSE "apply"
      <3>1. PICK s2 : s2 = StepAt(Len(rows[u]))
        OBVIOUS
      <3>2. PICK pc2 : pc2 = IF s2 \in WarningSteps THEN "record" ELSE "apply"
        OBVIOUS
      <3>3. call' = [call EXCEPT ![c].step = s2, ![c].pc = pc2]
        BY <2>4, <3>1, <3>2
      <3>4. call'[c].step = s2 /\ call'[c].user = u /\ call'[c].pc = pc2
        BY <1>0, <1>a, <3>3 DEF TypeOK, Calls
      <3>5. QED
        BY <3>1, <3>2, <3>4
    <2>6. CallOrder(c)'
      BY <2>1, <2>5 DEF CallOrder
    <2>7. QED
      BY <2>2, <2>6
  <1>3. CASE Apply(c) \/ Mark(c)
    <2>1. MarkUnrecorded(c) /\ rows' = rows /\ cache' = cache
      BY <1>3 DEF Apply, Mark
    <2>2. ~Has(u, k) /\ k # 0
      BY <1>0, <1>3 DEF CallInv, MayInsert, Active, Apply, Mark
    <2>3. unrecorded'[u].inc = k /\ unrecorded'[u].step = s /\ u \notin recorded'
      BY <1>0, <2>1 DEF MarkUnrecorded, TypeOK
    <2>4. s = StepAt(Len(rows[u])) /\ ~Uncounted(u)
      BY <1>0, <1>3, <2>2 DEF CallOrder, CallInv, Active, Apply, Mark, Uncounted
    <2>5. ~Has(u, k)'
      BY <2>1, <2>2 DEF Has
    <2>6. UserOrder(u)'
      BY <1>0, <2>1, <2>3, <2>4, <2>5 DEF UserOrder, Uncounted
    <2>7. call'[c].user = u /\ call'[c].step = s
      BY <1>c, <1>3, <1>a DEF Apply, Mark, PCs, Calls
    <2>8. CallOrder(c)'
      BY <2>1, <2>2, <2>3, <2>4, <2>7 DEF CallOrder
    <2>9. QED
      BY <2>6, <2>8
  <1>4. CASE ApplyGone(c) \/ Record(c)
    <2>1. UNCHANGED <<unrecorded, recorded, unconfirmed, rows, cache>>
      BY <1>4 DEF ApplyGone, Record, memVars
    <2>2. UserOrder(u)'
      BY <1>0, <2>1 DEF UserOrder, Uncounted, Has
    <2>3. PICK pc \in {"mark", "save", "confirm", "commit"} :
            /\ Goto(c, pc) /\ (pc = "commit" => call[c].pc = "record")
            /\ (call[c].pc = "apply" \/ call[c].pc = "record")
      BY <1>4 DEF ApplyGone, Record
    <2>4. call'[c].pc = pc /\ call'[c].user = u /\ call'[c].inc = k /\ call'[c].step = s
      BY <1>c, <1>a, <2>3 DEF PCs, Calls
    <2>5. CallOrder(c)'
      BY <1>0, <2>1, <2>3, <2>4 DEF CallOrder, Has
    <2>6. QED
      BY <2>2, <2>5
  <1>5. CASE Confirm(c)
    <2>1. unrecorded' = unrecorded /\ rows' = rows /\ call[c].pc = "confirm"
      BY <1>5 DEF Confirm
    <2>2. unrecorded[u].inc = k /\ k # 0 /\ IsPending(c)
      BY <1>0, <1>a, <2>1 DEF CallInv, Active, IsPending
    <2>3. Persisted(c) = Has(u, k)
      BY DEF Persisted, Has
    <2>4. CASE Has(u, k)
      <3>1. recorded' = recorded \cup {u} /\ call'[c].pc = "save" /\ cache' = [cache EXCEPT ![u] = @ + 1]
        BY <1>5, <1>c, <1>a, <2>2, <2>3, <2>4 DEF Confirm, Remember, PCs, Calls
      <3>2. u \notin recorded
        BY <1>0, <2>1, <2>2, <2>4 DEF CallInv, Active
      <3>3. QED
        BY <1>0, <1>a, <2>1, <2>2, <2>4, <3>1, <3>2 DEF UserOrder, Uncounted, CallOrder, Has, TypeOK
    <2>5. CASE ~Has(u, k)
      <3>1. recorded' = recorded /\ cache' = cache /\ call'[c].pc = "commit" /\ call'[c].user = u
            /\ call'[c].inc = k /\ call'[c].step = s
        BY <1>5, <1>c, <1>a, <2>2, <2>3, <2>5 DEF Confirm, PCs, Calls
      <3>2. QED
        BY <1>0, <2>1, <2>2, <3>1 DEF UserOrder, Uncounted, CallOrder, Has
    <2>6. QED
      BY <2>4, <2>5
  <1>6. CASE Commit(c) \/ CommitThenRaises(c) \/ CommitUnknown(c)
    <2> DEFINE n == Len(rows[u])
    <2>1. /\ ~Has(u, k) /\ unrecorded' = unrecorded /\ call[c].pc = "commit"
          /\ k \in Nat /\ k # 0
      BY <1>0, <1>6 DEF CallInv, MayInsert, Active, Commit, CommitThenRaises, CommitUnknown
    <2>2. IsPending(c) = (unrecorded[u].inc # 0) /\ (unrecorded[u].inc # 0 => unrecorded[u].inc = k /\ unrecorded[u].step = s)
      BY <1>0, <1>a, <2>1 DEF IsPending, CallInv
    <2>3. /\ ~Uncounted(u) /\ cache[u] = n /\ u \notin recorded
          /\ s = StepAt(n)
      BY <1>0, <2>1, <2>2 DEF Uncounted, UserOrder, CallOrder
    <2>4. CASE rows' = rows
      <3>1. CommitUnknown(c)
        <4>1. ~Insert(c)
          BY <1>0, <2>4, Inserted
        <4>2. QED
          BY <1>6, <4>1 DEF Commit, CommitThenRaises
      <3>2. cache' = cache /\ recorded' = recorded
        BY <3>1 DEF CommitUnknown
      <3>3. UserOrder(u)'
        BY <1>0, <2>1, <2>4, <3>2 DEF UserOrder, Uncounted, Has
      <3>4. QED
        BY <1>b, <3>1, <3>3 DEF CommitUnknown
    <2>5. CASE Insert(c)
      <3>1. /\ Len(rows'[u]) = n + 1 /\ n \in Nat
            /\ \A i \in 1..n : rows'[u][i] = rows[u][i]
            /\ rows'[u][n + 1].inc = k /\ rows'[u][n + 1].step = s
        BY <1>0, <2>5, Inserted
      <3>2. \A i \in 1..n + 1 : i \in 1..n \/ i = n + 1
        BY <3>1
      <3>3. \A i \in 1..Len(rows'[u]) : rows'[u][i].step = StepAt(i - 1)
        <4>1. SUFFICES ASSUME NEW i \in 1..n + 1 PROVE rows'[u][i].step = StepAt(i - 1)
          BY <3>1
        <4>2. CASE i \in 1..n
          <5>1. rows[u][i].step = StepAt(i - 1)
            BY <1>0, <4>2 DEF UserOrder
          <5>2. QED
            BY <3>1, <4>2, <5>1
        <4>3. CASE i = n + 1
          <5>1. i - 1 = n
            BY <3>1, <4>3
          <5>2. QED
            BY <2>3, <3>1, <4>3, <5>1
        <4>4. QED
          BY <3>2, <4>2, <4>3
      <3>4. Has(u, k)'
        BY <3>1 DEF Has
      <3>5. CASE CommitUnknown(c)
        <4>1. cache' = cache /\ recorded' = recorded /\ call'[c].pc = "idle"
          BY <1>0, <3>5, IdleTypes DEF CommitUnknown, Leave, TypeOK
        <4>2. unrecorded[u].inc = k
          BY <1>0, <1>t, <2>1, <2>2, <4>1 DEF CallOrder
        <4>3. UserOrder(u)'
          BY <2>1, <2>3, <3>1, <3>3, <3>4, <4>1, <4>2 DEF UserOrder, Uncounted
        <4>4. QED
          BY <1>b, <3>5, <4>3 DEF CommitUnknown
      <3>6. CASE Commit(c) \/ CommitThenRaises(c)
        <4>1. cache'[u] = n + 1 /\ (u \in recorded' <=> unrecorded[u].inc # 0)
          BY <1>0, <2>2, <2>3, <3>6 DEF Commit, CommitThenRaises, Remember, TypeOK
        <4>2. UserOrder(u)'
          BY <2>1, <2>2, <3>1, <3>3, <3>4, <4>1 DEF UserOrder, Uncounted
        <4>3. CallOrder(c)'
          <5>1. CASE Commit(c)
            <6>1. call'[c].pc = "save"
              BY <5>1, <1>c, <1>a DEF Commit, PCs, Calls
            <6>2. QED
              BY <6>1 DEF CallOrder
          <5>2. QED
            BY <1>b, <3>6, <5>1 DEF CommitThenRaises
        <4>4. QED
          BY <4>2, <4>3
      <3>7. QED
        BY <1>6, <3>5, <3>6
    <2>6. QED
      BY <1>6, <2>4, <2>5 DEF Commit, CommitThenRaises, CommitUnknown
  <1>7. CASE SaveAndPop(c)
    <2>1. unrecorded'[u].inc = 0 /\ rows' = rows /\ cache' = cache /\ u \notin recorded'
      BY <1>0, <1>7, IdleTypes DEF SaveAndPop, TypeOK
    <2>2. ~Uncounted(u)
      BY <1>0, <1>7 DEF SaveAndPop, CallInv, Active, Uncounted
    <2>3. QED
      BY <1>0, <1>b, <1>7, <2>1, <2>2 DEF SaveAndPop, UserOrder, Uncounted
  <1>8. QED
    BY <1>1, <1>2, <1>3, <1>4, <1>5, <1>6, <1>7
       DEF Step, ApplyFails, ConfirmFails, CommitFails, Cancel, memVars

LEMMA OrderInductive == IncidentInv /\ OrderInv /\ [Next]_vars => OrderInv'
  <1>1. SUFFICES ASSUME IncidentInv, OrderInv, [Next]_vars PROVE OrderInv'
    OBVIOUS
  <1>2. QED
    BY <1>1, StepOrder, BeginInv, ClearInv, CrashInv, StutterInv DEF Next, Done

\* The n-th row of the history carries step n, the last step repeating, as long as no
\* crash, no clearing and no warning of unknown fate has come between.
THEOREM StepsInOrder == Spec => []EscalationInOrder
  <1>1. Init => OrderInv
    BY InitInv
  <1>2. IncidentInv /\ OrderInv => EscalationInOrder
    BY DEF OrderInv, UserOrder, StepAt, EscalationInOrder
  <1>3. QED
    BY <1>1, <1>2, OrderInductive, IncidentAlways, PTL DEF Spec

=============================================================================
