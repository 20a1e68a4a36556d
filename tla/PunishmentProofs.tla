------------------------ MODULE PunishmentProofs ------------------------
(***************************************************************************)
(* What holds of BanLifecycle for every set of users, groups and lifters,  *)
(* every term of a ban and every disturbance other than "overlap": the     *)
(* run BanLifecycle_overlap shows that the exclusion of a punishment and   *)
(* an enable of the same user is needed.  InverseExact and the promise of  *)
(* PanelBan also need that nobody edits the groups of a user on the panel  *)
(* while a stale inverse is kept ("edit").                                 *)
(*                                                                         *)
(* Of the facts of the daily report (PunishmentFacts, the instance F): for *)
(* every set of incidents the report is complete and nothing in doubt is   *)
(* settled, unless a crash, a failing database and a failing outbox come   *)
(* together (Recoverable); Report is no incident (Distinct).               *)
(***************************************************************************)
EXTENDS MCPunishment, TLAPS

\* A punishment and an enable of one user never overlap.
Serialized == "overlap" \notin Disturbances

Method(plan) == IF plan = ByStatus THEN "status" ELSE "group"

\* While a punishment of a user is in progress no lifter has the user in hand.
Exclusion ==
  \A u \in Users : \A l \in Lifters : enf[u].pc # "idle" => u \notin Handling(l)

\* A lifter that talks to the panel talks about a user.
InHand ==
  \A l \in Lifters : lift[l].pc \in {"details", "put", "clear"} => lift[l].cur \in Users

\* The PUT of a punishment goes out with its inverse committed.
Staged ==
  \A u \in Users :
    enf[u].pc \in {"put", "store"} => prov[u].method = Method(enf[u].plan)

\* A lifter that only sets the status is not facing a ban by group.
LiftPlan ==
  \A l \in Lifters :
    (lift[l].pc \in {"details", "put"} /\ lift[l].inv.method # "group")
      => ban[lift[l].cur].by # "group"

\* The record and the inverse are cleared only once the ban is gone.
Lifted ==
  \A l \in Lifters : lift[l].pc = "clear" => ban[lift[l].cur].by = "none"

DeletedFree == \A u \in Users : status[u] = "deleted" => ban[u].by = "none"

---------------------------------------------------------------------------

\* A term is a number of seconds, "unset" or "permanent".
LEMMA TermsInt == Terms \subseteq Int /\ Unset \in Terms
BY ConstantsAssumption DEF Terms, Unset, Permanent

\* The values the handlers reset to are well typed.
LEMMA IdleTypes ==
  /\ NoInverse \in Inverses
  /\ NotDisabled \in Records
  /\ NoBan \in Bans
  /\ EnfIdle \in Enforcements
  /\ LiftIdle \in Lifts
<1>1. NoInverse \in Inverses
  BY DEF NoInverse, Inverses
<1>2. NotDisabled \in Records
  BY DEF NotDisabled, Records, Unset
<1>3. NoBan \in Bans
  BY DEF NoBan, Bans
<1>4. EnfIdle \in Enforcements
  BY TermsInt DEF EnfIdle, Enforcements
<1>5. LiftIdle \in Lifts
  BY <1>1 DEF LiftIdle, Lifts
<1> QED BY <1>1, <1>2, <1>3, <1>4, <1>5

\* On to the next user of a batch.
LEMMA NextUserType ==
  ASSUME TypeOK, NEW l \in Lifters, NEW left \in SUBSET Users, NEW done \in SUBSET Users,
         NextUser(l, left, done)
  PROVE  lift' \in [Lifters -> Lifts]
<1>1. [LiftIdle EXCEPT !.pc = "read", !.todo = left, !.confirmed = done] \in Lifts
  BY IdleTypes DEF Lifts
<1> QED BY <1>1 DEF NextUser, TypeOK

\* The initial state satisfies the type invariant.
LEMMA InitTypeOK == Init => TypeOK
BY IdleTypes DEF Init, TypeOK

\* A step of a punishment keeps every variable well typed (_disable_user).
LEMMA EnforcementTypes ==
  ASSUME TypeOK, NEW u \in Users, EnforcementStep(u) PROVE TypeOK'
<1> USE IdleTypes DEF TypeOK, panelVars, rowVars
<1>0. enf[u] \in Enforcements /\ prov[u] \in Inverses
  OBVIOUS
<1>1. CASE ReadProvenance(u)
  <2>1. PICK plan \in Groups \cup {ByStatus} :
          enf' = [enf EXCEPT ![u].plan = plan,
                             ![u].pc = IF plan = ByStatus THEN "prepare" ELSE "details"]
    BY <1>1 DEF ReadProvenance
  <2>2. enf' \in [Users -> Enforcements]
    BY <2>1, <1>0 DEF Enforcements
  <2> QED BY <1>1, <2>2 DEF ReadProvenance
<1>2. CASE DisableDetails(u)
  <2>1. enf' \in [Users -> Enforcements]
    BY <1>0, <1>2 DEF DisableDetails, Enforcements
  <2> QED BY <1>2, <2>1 DEF DisableDetails
<1>3. CASE PrepareProvenance(u)
  <2> DEFINE new == IF enf[u].plan = ByStatus THEN StatusInverse
                    ELSE GroupInverse(enf[u].snap, enf[u].plan)
             stored == IF prov[u].method = "none" THEN new ELSE prov[u]
  <2>1. new \in Inverses
    BY <1>0 DEF Inverses, Enforcements, StatusInverse, GroupInverse
  <2>2. stored \in Inverses
    BY <1>0, <2>1
  <2>3. prov' \in [Users -> Inverses]
    BY <1>3, <2>2 DEF PrepareProvenance
  <2>4. \/ enf' = [enf EXCEPT ![u].snap = stored.applied, ![u].pc = "put"]
        \/ enf' = [enf EXCEPT ![u] = EnfIdle]
    BY <1>3 DEF PrepareProvenance, EnfEnd
  <2>5. stored.applied \in SUBSET Groups
    BY <2>2 DEF Inverses
  <2> HIDE DEF new, stored
  <2>6. enf' \in [Users -> Enforcements]
    BY <1>0, <2>4, <2>5 DEF Enforcements
  <2> QED BY <1>3, <2>3, <2>6 DEF PrepareProvenance
<1>4. ASSUME ApplyDisable(u) PROVE /\ status' \in [Users -> {"active", "disabled", "deleted"}]
                                   /\ groups' \in [Users -> SUBSET Groups]
                                   /\ ban' \in [Users -> Bans]
  <2>1. enf[u].snap \in SUBSET Groups
    BY <1>0 DEF Enforcements
  <2>2. ban[u] \in Bans /\ groups[u] \in SUBSET Groups
    OBVIOUS
  <2>3. [by |-> IF enf[u].plan = ByStatus /\ ban[u].by # "group" THEN "status" ELSE "group",
         home |-> IF ban[u].by = "none" THEN groups[u] ELSE ban[u].home] \in Bans
    BY <2>2 DEF Bans
  <2>4. ban' \in [Users -> Bans]
    BY <1>4, <2>3 DEF ApplyDisable
  <2> QED BY <1>4, <2>1, <2>4 DEF ApplyDisable
<1>5. CASE PutDisable(u)
  <2>1. enf' \in [Users -> Enforcements]
    BY <1>0, <1>5 DEF PutDisable, EnfGoto, Enforcements
  <2> QED BY <1>4, <1>5, <2>1 DEF PutDisable
<1>6. CASE PutDisableLost(u)
  BY <1>4, <1>6 DEF PutDisableLost, EnfEnd
<1>7. CASE StoreDisable(u)
  <2>1. enf[u].term \in Terms
    BY <1>0 DEF Enforcements
  <2> DEFINE at == IF enf[u].term \in {Unset, Permanent} THEN enf[u].term ELSE now + enf[u].term
  <2>c. enf[u].term \in Int /\ now \in Int
    BY <2>1, TermsInt
  <2>a. at \in Int
    BY <2>c
  <2> HIDE DEF at
  <2>b. [disabled |-> TRUE, disabled_at |-> now, enable_at |-> at] \in Records
    BY <2>a DEF Records
  <2>2. DisableRecord(enf[u].term) \in Records
    BY <2>b DEF DisableRecord, at
  <2> QED BY <1>7, <2>2 DEF StoreDisable, EnfEnd
<1>8. CASE DisableFails(u)
  BY <1>8 DEF DisableFails, EnfEnd
<1> QED BY <1>1, <1>2, <1>3, <1>5, <1>6, <1>7, <1>8 DEF EnforcementStep

\* A step of an enable keeps every variable well typed (enable_selected_users).
LEMMA LiftTypes ==
  ASSUME TypeOK, InHand, NEW l \in Lifters, LiftStep(l) PROVE TypeOK'
<1> USE IdleTypes DEF TypeOK, panelVars, rowVars
<1>0. lift[l] \in Lifts
  OBVIOUS
<1>a. /\ lift[l].todo \in SUBSET Users /\ lift[l].confirmed \in SUBSET Users
      /\ lift[l].inv \in Inverses /\ lift[l].restored \in SUBSET Groups
      /\ lift[l].cur \in Users \cup {NoUser}
  BY <1>0 DEF Lifts
<1>d. lift[l].pc \in {"details", "put", "clear"} => lift[l].cur \in Users
  BY DEF InHand
<1>b. ASSUME ApplyEnable(l) PROVE /\ status' \in [Users -> {"active", "disabled", "deleted"}]
                                  /\ groups' \in [Users -> SUBSET Groups]
                                  /\ ban' \in [Users -> Bans]
  BY <1>a, <1>b DEF ApplyEnable
<1>c. ASSUME NEW pc \in {"idle", "read", "details", "put", "clear", "enable"},
             lift' = [lift EXCEPT ![l].pc = pc]
      PROVE  lift' \in [Lifters -> Lifts]
  BY <1>0, <1>c DEF Lifts
<1>1. ASSUME NEW u \in Users, LiftRead(l, u) PROVE TypeOK'
  <2>1. prov[u] \in Inverses
    OBVIOUS
  <2>2. lift' \in [Lifters -> Lifts]
    BY <1>0, <1>1, <2>1 DEF LiftRead, Lifts
  <2> QED BY <1>1, <2>2 DEF LiftRead
<1>2. ASSUME NEW u \in Users, RegistryEnable(l, u) PROVE TypeOK'
  <2>1. lift' \in [Lifters -> Lifts]
    BY <1>0, <1>2 DEF RegistryEnable, Lifts
  <2> QED BY <1>2, <2>1 DEF RegistryEnable, ClearRecord
<1>3. CASE LiftDetails(l)
  <2>1. CASE status[lift[l].cur] = "deleted"
    BY <1>3, <1>c, <2>1 DEF LiftDetails
  <2>2. CASE status[lift[l].cur] # "deleted"
    <3> DEFINE r == RestoredGroups(lift[l].inv, groups[lift[l].cur])
    <3>1. lift' = [lift EXCEPT ![l].pc = "put", ![l].restored = r]
      BY <1>3, <2>2 DEF LiftDetails
    <3>2. r \in SUBSET Groups
      BY <1>3, <1>a, <1>d DEF LiftDetails, RestoredGroups, Inverses
    <3> HIDE DEF r
    <3>3. lift' \in [Lifters -> Lifts]
      BY <1>0, <3>1, <3>2 DEF Lifts
    <3> QED BY <1>3, <3>3 DEF LiftDetails
  <2> QED BY <2>1, <2>2
<1>4. CASE PutEnable(l)
  BY <1>4, <1>b, <1>c DEF PutEnable
<1>5. CASE PutEnableLost(l)
  BY <1>5, <1>a, <1>b, NextUserType DEF PutEnableLost
<1>6. CASE LiftFails(l)
  <2>1. lift' \in [Lifters -> Lifts]
    BY <1>6, <1>a, NextUserType DEF LiftFails
  <2> QED BY <1>6, <2>1 DEF LiftFails
<1>7. CASE ClearFlags(l)
  <2>1. lift[l].confirmed \cup {lift[l].cur} \in SUBSET Users
    BY <1>7, <1>a, <1>d DEF ClearFlags
  <2>2. lift' \in [Lifters -> Lifts]
    BY <1>7, <1>a, <2>1, NextUserType DEF ClearFlags
  <2> QED BY <1>7, <2>2 DEF ClearFlags, ClearRecord
<1>8. CASE ClearFlagsFails(l)
  <2>1. lift[l].confirmed \cup {lift[l].cur} \in SUBSET Users
    BY <1>8, <1>a, <1>d DEF ClearFlagsFails
  <2>2. lift' \in [Lifters -> Lifts]
    BY <1>8, <1>a, <2>1, NextUserType DEF ClearFlagsFails
  <2> QED BY <1>8, <2>2 DEF ClearFlagsFails
<1>9. CASE LiftReported(l)
  BY <1>9, <1>c DEF LiftReported
<1> QED BY <1>1, <1>2, <1>3, <1>4, <1>5, <1>6, <1>7, <1>8, <1>9 DEF LiftStep

\* Every step keeps every variable well typed.
LEMMA TypeOKStep == TypeOK /\ InHand /\ [Next]_vars => TypeOK'
<1> SUFFICES ASSUME TypeOK, InHand, [Next]_vars PROVE TypeOK'
  OBVIOUS
<1> USE IdleTypes, ConstantsAssumption
<1> USE DEF TypeOK, panelVars, rowVars
<1>1. ASSUME NEW u \in Users, NEW term \in Terms, DisableUser(u, term) PROVE TypeOK'
  <2>1. [EnfIdle EXCEPT !.pc = "read", !.term = term] \in Enforcements
    BY DEF Enforcements
  <2> QED BY <1>1, <2>1 DEF DisableUser
<1>2. ASSUME NEW u \in Users, EnforcementStep(u) PROVE TypeOK'
  BY <1>2, EnforcementTypes
<1>3. ASSUME NEW u \in Users, CliEnable(u) PROVE TypeOK'
  BY <1>3 DEF CliEnable, ClearRecord
<1>4. ASSUME NEW u \in Users, AdminActivate(u) \/ AdminDelete(u) PROVE TypeOK'
  BY <1>4 DEF AdminActivate, AdminDelete
<1>5. ASSUME NEW u \in Users, NEW gs \in SUBSET Groups, AdminEdit(u, gs) PROVE TypeOK'
  BY <1>5 DEF AdminEdit
<1>6. ASSUME NEW l \in Lifters, NEW batch \in SUBSET Users, StartLift(l, batch)
      PROVE TypeOK'
  <2>1. [LiftIdle EXCEPT !.pc = "read", !.todo = batch] \in Lifts
    BY DEF Lifts
  <2> QED BY <1>6, <2>1 DEF StartLift
<1>7. ASSUME NEW l \in Lifters, LiftStep(l) PROVE TypeOK'
  BY <1>7, LiftTypes
<1>8. CASE EnableLoop
  BY <1>6, <1>8 DEF EnableLoop
<1>9. ASSUME NEW l \in Lifters, ManualEnable(l) PROVE TypeOK'
  <2>1. PICK batch \in SUBSET Users : StartLift(l, batch)
    BY <1>9 DEF ManualEnable
  <2> QED BY <1>6, <2>1
<1>10. ASSUME NEW d \in Groups \cup {ByStatus}, ChangeSettings(d) PROVE TypeOK'
  BY <1>10 DEF ChangeSettings
<1>11. CASE Tick
  BY <1>11 DEF Tick
<1>12. CASE Crash
  BY <1>12 DEF Crash
<1>13. CASE UNCHANGED vars
  BY <1>13 DEF vars
<1> QED
  BY <1>1, <1>2, <1>3, <1>4, <1>5, <1>7, <1>8, <1>9, <1>10, <1>11, <1>12, <1>13 DEF Next

\* A call of a lifter never faces the panel without a user in hand.
LEMMA InHandStep == TypeOK /\ InHand /\ [Next]_vars => InHand'
<1> SUFFICES ASSUME TypeOK, InHand, [Next]_vars, NEW m \in Lifters,
                    lift'[m].pc \in {"details", "put", "clear"}
             PROVE  lift'[m].cur \in Users
  BY DEF InHand
<1> USE DEF InHand
<1>0. lift \in [Lifters -> Lifts]
  BY DEF TypeOK
<1>1. CASE UNCHANGED lift
  BY <1>1
<1>2. ASSUME NEW l \in Lifters, NEW left, NEW done, NextUser(l, left, done)
      PROVE  lift'[m].cur \in Users
  BY <1>0, <1>2 DEF NextUser, LiftIdle
<1>3. ASSUME NEW l \in Lifters, LiftStep(l) PROVE lift'[m].cur \in Users
  <2>1. ASSUME NEW u \in Users, LiftRead(l, u) PROVE lift'[m].cur \in Users
    BY <1>0, <2>1 DEF LiftRead, Lifts
  <2>2. ASSUME NEW u \in Users, RegistryEnable(l, u) PROVE lift'[m].cur \in Users
    BY <1>0, <2>2 DEF RegistryEnable, Lifts
  <2>3. CASE LiftDetails(l)
    BY <1>0, <2>3 DEF LiftDetails, Lifts
  <2>4. CASE PutEnable(l)
    BY <1>0, <2>4 DEF PutEnable, Lifts
  <2>5. CASE PutEnableLost(l)
    BY <1>1, <1>2, <2>5 DEF PutEnableLost
  <2>6. CASE LiftFails(l)
    BY <1>2, <2>6 DEF LiftFails
  <2>7. CASE ClearFlags(l)
    BY <1>2, <2>7 DEF ClearFlags
  <2>8. CASE ClearFlagsFails(l)
    BY <1>2, <2>8 DEF ClearFlagsFails
  <2>9. CASE LiftReported(l)
    BY <1>0, <2>9 DEF LiftReported, Lifts
  <2> QED BY <1>3, <2>1, <2>2, <2>3, <2>4, <2>5, <2>6, <2>7, <2>8, <2>9 DEF LiftStep
<1>4. ASSUME NEW l \in Lifters, NEW batch, StartLift(l, batch) PROVE lift'[m].cur \in Users
  BY <1>0, <1>4 DEF StartLift, LiftIdle
<1>5. CASE EnableLoop
  BY <1>4, <1>5, ConstantsAssumption DEF EnableLoop
<1>6. ASSUME NEW l \in Lifters, ManualEnable(l) PROVE lift'[m].cur \in Users
  BY <1>4, <1>6 DEF ManualEnable
<1>7. CASE Crash
  BY <1>7 DEF Crash, LiftIdle
<1>8. CASE ~ UNCHANGED lift /\ Next
  BY <1>3, <1>5, <1>6, <1>7, <1>8
     DEF Next, EnforcementStep, DisableUser, ReadProvenance, DisableDetails, PrepareProvenance,
         PutDisable, PutDisableLost, StoreDisable, DisableFails, CliEnable, AdminActivate,
         AdminDelete, AdminEdit, ChangeSettings, Tick
<1> QED BY <1>1, <1>8 DEF vars

\* Every variable keeps its type: records of the users row, calls in progress
\* and the panel, for all constants and all disturbances, "overlap" included.
THEOREM TypeCorrect == Spec => []TypeOK
<1>1. Init => TypeOK /\ InHand
  BY InitTypeOK DEF Init, InHand, LiftIdle
<1>2. TypeOK /\ InHand /\ [Next]_vars => (TypeOK /\ InHand)'
  BY TypeOKStep, InHandStep
<1> QED BY <1>1, <1>2, PTL DEF Spec

---------------------------------------------------------------------------
(* BanReversible.                                                          *)

\* The inductive invariant behind BanReversible, beyond TypeOK and InHand.
BanFacts == Exclusion /\ Staged /\ LiftPlan /\ Lifted /\ DeletedFree /\ BanReversible

\* A step of a punishment keeps BanFacts: the PUT comes after its inverse is
\* committed (_prepare_disable_provenance).
LEMMA EnforcementFacts ==
  ASSUME Serialized, TypeOK, InHand, BanFacts, NEW u \in Users, EnforcementStep(u)
  PROVE  BanFacts'
<1> USE DEF panelVars, rowVars
<1>t. /\ enf \in [Users -> Enforcements] /\ prov \in [Users -> Inverses]
      /\ ban \in [Users -> Bans] /\ status \in [Users -> {"active", "disabled", "deleted"}]
  BY DEF TypeOK
<1>u. /\ lift' = lift /\ enf[u].pc # "idle"
      /\ \A w \in Users \ {u} : enf'[w] = enf[w]
  BY <1>t DEF EnforcementStep, ReadProvenance, DisableDetails, PrepareProvenance, PutDisable,
       PutDisableLost, StoreDisable, DisableFails, EnfEnd, EnfGoto, EnfIdle
<1>v. \A l \in Lifters : lift[l].cur # u
  BY <1>u DEF BanFacts, Exclusion, Handling
<1>w. \A l \in Lifters : u \notin Handling(l)
  BY <1>u DEF BanFacts, Exclusion
<1>x. Exclusion'
  BY <1>u, <1>w DEF BanFacts, Exclusion, Handling
<1>1. CASE UNCHANGED panelVars /\ UNCHANGED prov /\ enf'[u].pc \notin {"put", "store"}
  BY <1>1, <1>t, <1>u, <1>x DEF BanFacts, Staged, LiftPlan, Lifted, DeletedFree, BanReversible
<1>2. CASE PrepareProvenance(u)
  <2> DEFINE new == IF enf[u].plan = ByStatus THEN StatusInverse
                    ELSE GroupInverse(enf[u].snap, enf[u].plan)
             stored == IF prov[u].method = "none" THEN new ELSE prov[u]
  <2>1. new.method = Method(enf[u].plan)
    BY DEF StatusInverse, GroupInverse, Method
  <2>2. prov' = [prov EXCEPT ![u] = stored] /\ UNCHANGED panelVars
    BY <1>2 DEF PrepareProvenance
  <2>3. \/ /\ enf' = [enf EXCEPT ![u].snap = stored.applied, ![u].pc = "put"]
           /\ stored.method = Method(enf[u].plan)
        \/ enf' = [enf EXCEPT ![u] = EnfIdle]
    BY <1>2, <2>1 DEF PrepareProvenance, EnfEnd
  <2>4. prov[u].method # "none" => prov'[u] = prov[u]
    BY <1>t, <2>2
  <2>5. prov'[u] = stored /\ \A w \in Users \ {u} : prov'[w] = prov[w]
    BY <1>t, <2>2
  <2> HIDE DEF new, stored
  <2>6. enf'[u].pc \in {"put", "store"} => prov'[u].method = Method(enf'[u].plan)
    BY <1>t, <2>3, <2>5 DEF Enforcements, EnfIdle
  <2>7. Staged'
    BY <1>t, <1>u, <2>5, <2>6 DEF BanFacts, Staged
  <2>8. BanReversible'
    BY <1>t, <2>2, <2>4, <2>5 DEF BanFacts, BanReversible, Bans
  <2> QED BY <1>u, <1>x, <2>2, <2>7, <2>8 DEF BanFacts, LiftPlan, Lifted, DeletedFree
<1>3. CASE PutDisable(u) \/ PutDisableLost(u)
  <2>1. enf[u].pc = "put" /\ status[u] # "deleted" /\ ApplyDisable(u) /\ UNCHANGED prov
    BY <1>3 DEF PutDisable, PutDisableLost
  <2>2. prov[u].method = Method(enf[u].plan)
    BY <2>1 DEF BanFacts, Staged
  <2>3. ban[u].by # "none" => ban[u].by = prov[u].method
    BY DEF BanFacts, BanReversible
  <2>4. ban'[u].by = Method(enf[u].plan) /\ \A w \in Users \ {u} : ban'[w] = ban[w]
    BY <1>t, <2>1, <2>2, <2>3 DEF ApplyDisable, Method
  <2>5. BanReversible'
    BY <2>1, <2>2, <2>4 DEF BanFacts, BanReversible
  <2>6. DeletedFree'
    BY <1>t, <2>1, <2>4 DEF BanFacts, DeletedFree, ApplyDisable
  <2>7. enf'[u].plan = enf[u].plan \/ enf'[u].pc = "idle"
    BY <1>3, <1>t DEF PutDisable, PutDisableLost, EnfGoto, EnfEnd, EnfIdle, Enforcements
  <2>8. Staged'
    BY <1>u, <2>1, <2>2, <2>7 DEF BanFacts, Staged
  <2>9. LiftPlan' /\ Lifted'
    BY <1>u, <1>v, <2>4 DEF BanFacts, LiftPlan, Lifted, InHand
  <2> QED BY <1>x, <2>5, <2>6, <2>8, <2>9 DEF BanFacts
<1>4. CASE ReadProvenance(u)
  <2>1. enf'[u].pc \in {"prepare", "details"}
    BY <1>4, <1>t DEF ReadProvenance, Enforcements
  <2> QED BY <1>1, <1>4, <2>1 DEF ReadProvenance
<1>5. CASE DisableDetails(u)
  <2>1. enf'[u].pc = "prepare"
    BY <1>5, <1>t DEF DisableDetails, Enforcements
  <2> QED BY <1>1, <1>5, <2>1 DEF DisableDetails
<1>6. CASE StoreDisable(u) \/ DisableFails(u)
  <2>1. enf'[u].pc = "idle"
    BY <1>6, <1>t DEF StoreDisable, DisableFails, EnfEnd, EnfIdle
  <2> QED BY <1>1, <1>6, <2>1 DEF StoreDisable, DisableFails
<1> QED BY <1>2, <1>3, <1>4, <1>5, <1>6 DEF EnforcementStep

\* A step of an enable keeps BanFacts: the inverse goes only after the PUT that
\* uses it (_clear_database_disable_flags).
LEMMA LiftFacts ==
  ASSUME Serialized, TypeOK, InHand, BanFacts, NEW l \in Lifters, LiftStep(l)
  PROVE  BanFacts'
<1> USE DEF panelVars, rowVars
<1>t. /\ lift \in [Lifters -> Lifts] /\ prov \in [Users -> Inverses] /\ lift[l] \in Lifts
      /\ ban \in [Users -> Bans] /\ status \in [Users -> {"active", "disabled", "deleted"}]
  BY DEF TypeOK
<1> DEFINE c == lift[l].cur
<1>u. /\ enf' = enf
      /\ \A m \in Lifters \ {l} : lift'[m] = lift[m]
  BY <1>t DEF LiftStep, LiftRead, RegistryEnable, LiftDetails, PutEnable, PutEnableLost,
     LiftFails, ClearFlags, ClearFlagsFails, LiftReported, NextUser
<1>h. \A w \in Users : w \in Handling(l)' => w \in Handling(l)
  <2>1. ASSUME NEW u \in Users, LiftRead(l, u) \/ RegistryEnable(l, u)
        PROVE  \A w \in Users : w \in Handling(l)' => w \in Handling(l)
    BY <1>t, <2>1 DEF LiftRead, RegistryEnable, Handling, Lifts
  <2>2. ASSUME NEW left, NEW done, NextUser(l, left, done),
               left \subseteq lift[l].todo, done \subseteq lift[l].confirmed \cup {c}
        PROVE  \A w \in Users : w \in Handling(l)' => w \in Handling(l)
    BY <1>t, <2>2, ConstantsAssumption DEF NextUser, LiftIdle, Handling
  <2>3. CASE LiftDetails(l) \/ PutEnable(l) \/ LiftReported(l)
    BY <1>t, <2>3 DEF LiftDetails, PutEnable, LiftReported, Handling, Lifts
  <2>4. CASE PutEnableLost(l)
    BY <2>2, <2>4 DEF PutEnableLost, Handling
  <2>5. CASE LiftFails(l)
    BY <2>2, <2>5 DEF LiftFails
  <2>6. CASE ClearFlags(l) \/ ClearFlagsFails(l)
    BY <2>2, <2>6 DEF ClearFlags, ClearFlagsFails
  <2> QED BY <2>1, <2>3, <2>4, <2>5, <2>6 DEF LiftStep
<1>x. Exclusion'
  BY <1>u, <1>h DEF BanFacts, Exclusion, Handling
<1>n. ASSUME NEW left, NEW done, NextUser(l, left, done) PROVE lift'[l].pc = "read"
  BY <1>t, <1>n DEF NextUser, LiftIdle
<1>1. CASE UNCHANGED panelVars /\ UNCHANGED prov /\ lift'[l].pc \notin {"details", "put", "clear"}
  BY <1>1, <1>u, <1>x DEF BanFacts, Staged, LiftPlan, Lifted, DeletedFree, BanReversible
<1>2. ASSUME NEW u \in Users, LiftRead(l, u) PROVE BanFacts'
  <2>1. /\ lift'[l].cur = u /\ lift'[l].inv = prov[u] /\ lift'[l].pc \in {"details", "put"}
        /\ UNCHANGED panelVars /\ UNCHANGED prov
    BY <1>2, <1>t DEF LiftRead, Lifts
  <2>2. LiftPlan'
    BY <1>u, <2>1 DEF BanFacts, LiftPlan, BanReversible
  <2>3. Lifted'
    BY <1>u, <2>1 DEF BanFacts, Lifted
  <2> QED BY <1>u, <1>x, <2>1, <2>2, <2>3 DEF BanFacts, Staged, DeletedFree, BanReversible
<1>3. CASE LiftDetails(l)
  <2>1. c \in Users /\ UNCHANGED panelVars /\ UNCHANGED prov
    BY <1>3 DEF LiftDetails, InHand
  <2>2. CASE status[c] = "deleted"
    <3>1. lift'[l].pc = "clear" /\ lift'[l].cur = c
      BY <1>3, <1>t, <2>2 DEF LiftDetails, Lifts
    <3>2. ban[c].by = "none"
      BY <2>1, <2>2 DEF BanFacts, DeletedFree
    <3> QED BY <1>u, <1>x, <2>1, <3>1, <3>2
            DEF BanFacts, Staged, LiftPlan, Lifted, DeletedFree, BanReversible
  <2>3. CASE status[c] # "deleted"
    <3>1. lift'[l].pc = "put" /\ lift'[l].cur = c /\ lift'[l].inv = lift[l].inv
      BY <1>3, <1>t, <2>3 DEF LiftDetails, Lifts
    <3>2. LiftPlan'
      <4>1. lift[l].inv.method # "group" => ban[c].by # "group"
        BY <1>3 DEF LiftDetails, BanFacts, LiftPlan
      <4>2. ban' = ban
        BY <2>1
      <4> QED BY <1>u, <3>1, <4>1, <4>2 DEF BanFacts, LiftPlan
    <3>3. Staged' /\ DeletedFree' /\ BanReversible'
      BY <1>u, <1>x, <2>1 DEF BanFacts, Staged, DeletedFree, BanReversible
    <3>4. Lifted'
      BY <1>u, <1>x, <2>1, <3>1 DEF BanFacts, Lifted
    <3> QED BY <1>x, <3>2, <3>3, <3>4 DEF BanFacts
  <2> QED BY <2>2, <2>3
<1>4. ASSUME lift[l].pc = "put", status[c] # "deleted", ApplyEnable(l), UNCHANGED prov,
             lift'[l].pc \in {"clear", "put", "read"}, lift'[l].pc # "read" => lift'[l].cur = c
      PROVE  BanFacts'
  <2>1. c \in Users
    BY <1>4 DEF InHand
  <2>2. ban' = [ban EXCEPT ![c] = NoBan]
    BY <1>4 DEF ApplyEnable, BanFacts, LiftPlan
  <2>3. \A w \in Users : ban'[w] = ban[w] \/ ban'[w].by = "none"
    BY <1>t, <2>2 DEF NoBan
  <2>4. ban'[c].by = "none"
    BY <1>t, <2>1, <2>2 DEF NoBan
  <2>5. LiftPlan'
    BY <1>u, <1>4, <2>3, <2>4 DEF BanFacts, LiftPlan, InHand
  <2>6. Lifted'
    BY <1>u, <1>4, <2>3, <2>4 DEF BanFacts, Lifted, InHand
  <2>7. DeletedFree'
    BY <1>t, <1>4, <2>1, <2>3 DEF BanFacts, DeletedFree, ApplyEnable
  <2>8. BanReversible' /\ Staged'
    BY <1>u, <1>4, <2>3 DEF BanFacts, BanReversible, Staged
  <2> QED BY <1>x, <2>5, <2>6, <2>7, <2>8 DEF BanFacts
<1>5. CASE PutEnable(l)
  <2>1. lift[l].pc = "put" /\ lift'[l].pc = "clear" /\ lift'[l].cur = c /\ UNCHANGED prov
    BY <1>5, <1>t DEF PutEnable, Lifts
  <2>2. CASE status[c] # "deleted"
    BY <1>4, <1>5, <2>1, <2>2 DEF PutEnable
  <2>3. CASE status[c] = "deleted"
    <3>1. ban[c].by = "none" /\ UNCHANGED panelVars
      BY <1>5, <2>1, <2>3 DEF PutEnable, BanFacts, DeletedFree, InHand
    <3> QED BY <1>u, <1>x, <2>1, <3>1
            DEF BanFacts, Staged, LiftPlan, Lifted, DeletedFree, BanReversible
  <2> QED BY <2>2, <2>3
<1>6. CASE PutEnableLost(l)
  <2>1. lift'[l].pc = "read" \/ lift' = lift
    BY <1>6, <1>n DEF PutEnableLost
  <2> QED BY <1>4, <1>6, <2>1 DEF PutEnableLost
<1>7. CASE ClearFlags(l)
  <2>1. /\ lift[l].pc = "clear" /\ c \in Users /\ lift'[l].pc = "read"
        /\ prov' = [prov EXCEPT ![c] = NoInverse] /\ UNCHANGED panelVars
    BY <1>7, <1>n DEF ClearFlags, InHand
  <2>2. ban[c].by = "none"
    BY <2>1 DEF BanFacts, Lifted
  <2>3. enf[c].pc = "idle"
    BY <2>1 DEF BanFacts, Exclusion, Handling
  <2>4. BanReversible' /\ Staged'
    BY <1>t, <1>u, <2>1, <2>2, <2>3 DEF BanFacts, BanReversible, Staged
  <2> QED BY <1>u, <1>x, <2>1, <2>4 DEF BanFacts, LiftPlan, Lifted, DeletedFree
<1>8. CASE ClearFlagsFails(l)
  BY <1>1, <1>8, <1>n DEF ClearFlagsFails
<1>9. CASE LiftFails(l)
  <2>1. lift'[l].pc = "read"
    BY <1>9, <1>n DEF LiftFails
  <2> QED BY <1>1, <1>9, <2>1 DEF LiftFails
<1>10. CASE LiftReported(l)
  <2>1. lift'[l].pc \in {"idle", "enable"}
    BY <1>10, <1>t DEF LiftReported, Lifts
  <2> QED BY <1>1, <1>10, <2>1 DEF LiftReported
<1>11. ASSUME NEW u \in Users, RegistryEnable(l, u) PROVE BanFacts'
  <2>1. lift'[l].pc \in {"idle", "enable"}
    BY <1>11, <1>t DEF RegistryEnable, Lifts
  <2> QED BY <1>1, <1>11, <2>1 DEF RegistryEnable
<1> QED BY <1>2, <1>3, <1>5, <1>6, <1>7, <1>8, <1>9, <1>10, <1>11 DEF LiftStep

\* Starting a batch: none of its users is being punished.
LEMMA StartLiftFacts ==
  ASSUME Serialized, TypeOK, BanFacts, NEW l \in Lifters, NEW batch \in SUBSET Users,
         StartLift(l, batch)
  PROVE  BanFacts'
<1>t. lift \in [Lifters -> Lifts]
  BY DEF TypeOK
<1>1. /\ UNCHANGED <<panelVars, prov, enf>>
      /\ \A m \in Lifters \ {l} : lift'[m] = lift[m]
      /\ lift'[l].pc = "read" /\ lift'[l].todo = batch
      /\ lift'[l].cur = NoUser /\ lift'[l].confirmed = {}
      /\ \A u \in batch : enf[u].pc = "idle"
  BY <1>t DEF StartLift, LiftIdle, Serialized, May, rowVars
<1>2. Exclusion'
  BY <1>1, ConstantsAssumption DEF BanFacts, Exclusion, Handling
<1> QED BY <1>1, <1>2
        DEF BanFacts, Staged, LiftPlan, Lifted, DeletedFree, BanReversible, panelVars

\* Every step keeps BanFacts, when punishments and enables do not overlap.
LEMMA BanFactsStep ==
  ASSUME Serialized, TypeOK, InHand, BanFacts, [Next]_vars PROVE BanFacts'
<1> USE DEF panelVars, rowVars
<1>t. /\ enf \in [Users -> Enforcements] /\ ban \in [Users -> Bans]
      /\ status \in [Users -> {"active", "disabled", "deleted"}]
  BY DEF TypeOK
<1>1. ASSUME NEW u \in Users, NEW term \in Terms, DisableUser(u, term) PROVE BanFacts'
  <2>1. /\ enf'[u].pc = "read" /\ \A w \in Users \ {u} : enf'[w] = enf[w]
        /\ \A l \in Lifters : u \notin Handling(l)
        /\ UNCHANGED <<panelVars, prov, lift>>
    BY <1>1, <1>t DEF DisableUser, EnfIdle, Serialized, May
  <2>2. Exclusion'
    BY <2>1 DEF BanFacts, Exclusion, Handling
  <2> QED BY <2>1, <2>2 DEF BanFacts, Staged, LiftPlan, Lifted, DeletedFree, BanReversible
<1>2. ASSUME UNCHANGED <<prov, enf, lift>>,
             \A w \in Users : ban'[w] = ban[w] \/ ban'[w].by = "none",
             \A w \in Users : status'[w] = "deleted" => ban'[w].by = "none"
      PROVE  BanFacts'
  <2>1. Exclusion' /\ Staged' /\ BanReversible' /\ DeletedFree'
    BY <1>2 DEF BanFacts, Exclusion, Handling, Staged, BanReversible, DeletedFree
  <2>2. LiftPlan' /\ Lifted'
    BY <1>2 DEF BanFacts, LiftPlan, Lifted, InHand
  <2> QED BY <2>1, <2>2 DEF BanFacts
<1>3. ASSUME NEW u \in Users,
             AdminActivate(u) \/ AdminDelete(u) \/ CliEnable(u)
               \/ \E gs \in SUBSET Groups : AdminEdit(u, gs)
      PROVE  BanFacts'
  BY <1>2, <1>3, <1>t DEF AdminActivate, AdminDelete, CliEnable, AdminEdit, NoBan, BanFacts, DeletedFree
<1>4. CASE Tick \/ UNCHANGED vars \/ \E d \in Groups \cup {ByStatus} : ChangeSettings(d)
  BY <1>2, <1>4 DEF Tick, vars, ChangeSettings, BanFacts, DeletedFree
<1>5. CASE Crash
  <2>1. \A u \in Users : enf'[u].pc = "idle"
    BY <1>5 DEF Crash, EnfIdle
  <2>2. \A l \in Lifters : lift'[l].pc = "idle"
    BY <1>5 DEF Crash, LiftIdle
  <2> QED BY <1>5, <2>1, <2>2 DEF Crash, BanFacts, Exclusion, Staged, LiftPlan, Lifted,
          DeletedFree, BanReversible
<1>6. CASE EnableLoop
  BY <1>6, StartLiftFacts, ConstantsAssumption DEF EnableLoop
<1>7. ASSUME NEW l \in Lifters, ManualEnable(l) PROVE BanFacts'
  <2>1. PICK batch \in SUBSET Users : StartLift(l, batch)
    BY <1>7 DEF ManualEnable
  <2> QED BY <2>1, StartLiftFacts
<1> QED
  BY <1>1, <1>3, <1>4, <1>5, <1>6, <1>7, EnforcementFacts, LiftFacts DEF Next

\* The invariant holds in every reachable state: its parts need one another.
LEMMA BanFactsHold == ASSUME Serialized PROVE Spec => [](TypeOK /\ InHand /\ BanFacts)
<1>1. Init => TypeOK /\ InHand /\ BanFacts
  BY InitTypeOK DEF Init, InHand, BanFacts, Exclusion, Staged, LiftPlan, Lifted, DeletedFree,
     BanReversible, LiftIdle, EnfIdle, NoBan
<1>2. TypeOK /\ InHand /\ BanFacts /\ [Next]_vars => (TypeOK /\ InHand /\ BanFacts)'
  BY TypeOKStep, InHandStep, BanFactsStep
<1> QED BY <1>1, <1>2, PTL DEF Spec

\* Whatever is lost, refused, failed, edited or killed: as long as a punishment
\* and an enable of one user do not overlap, a ban in force on the panel has its
\* inverse committed in the users row (_prepare_disable_provenance before the
\* PUT, _clear_database_disable_flags only after a confirmed enable or 404).
THEOREM BansStayReversible == ASSUME Serialized PROVE Spec => []BanReversible
<1>1. BanFacts => BanReversible
  BY DEF BanFacts
<1> QED BY <1>1, BanFactsHold, PTL

---------------------------------------------------------------------------
(* LoopActsOnDue.                                                          *)

\* Whoever the enable loop has still to enable is a user it has in hand.
LEMMA StillInHandling ==
  ASSUME TypeOK, InHand, NEW u \in StillToLift(Loop) PROVE u \in Users /\ u \in Handling(Loop)
<1>1. lift[Loop] \in Lifts
  BY ConstantsAssumption DEF TypeOK
<1> QED BY <1>1, ConstantsAssumption DEF StillToLift, Handling, InHand, Lifts

\* A step of a lifter gives the enable loop no further user to enable.
LEMMA LoopShrinks ==
  ASSUME TypeOK, NEW l \in Lifters, LiftStep(l)
  PROVE  StillToLift(Loop)' \subseteq StillToLift(Loop)
<1>t. lift \in [Lifters -> Lifts] /\ Loop \in Lifters /\ lift[l] \in Lifts
  BY ConstantsAssumption DEF TypeOK
<1>1. CASE lift'[Loop] = lift[Loop]
  BY <1>1 DEF StillToLift
<1>2. CASE l # Loop
  BY <1>1, <1>2, <1>t DEF LiftStep, LiftRead, RegistryEnable, LiftDetails, PutEnable, PutEnableLost,
     LiftFails, ClearFlags, ClearFlagsFails, LiftReported, NextUser
<1>3. CASE l = Loop
  <2>1. ASSUME NEW u \in Users, LiftRead(l, u) PROVE StillToLift(Loop)' \subseteq StillToLift(Loop)
    BY <1>3, <1>t, <2>1 DEF LiftRead, StillToLift, Lifts
  <2>2. ASSUME NEW u \in Users, RegistryEnable(l, u)
        PROVE StillToLift(Loop)' \subseteq StillToLift(Loop)
    BY <1>3, <1>t, <2>2 DEF RegistryEnable, StillToLift, Lifts
  <2>3. ASSUME NEW left, NEW done, NextUser(l, left, done), left \subseteq lift[l].todo
        PROVE  StillToLift(Loop)' \subseteq StillToLift(Loop)
    BY <1>3, <1>t, <2>3 DEF NextUser, LiftIdle, StillToLift
  <2>4. CASE LiftDetails(l) \/ PutEnable(l) \/ LiftReported(l)
    BY <1>3, <1>t, <2>4 DEF LiftDetails, PutEnable, LiftReported, StillToLift, Lifts
  <2>5. CASE PutEnableLost(l)
    BY <1>1, <1>3, <2>3, <2>5 DEF PutEnableLost
  <2>6. CASE LiftFails(l)
    BY <2>3, <2>6 DEF LiftFails
  <2>7. CASE ClearFlags(l) \/ ClearFlagsFails(l)
    BY <2>3, <2>7 DEF ClearFlags, ClearFlagsFails
  <2> QED BY <2>1, <2>2, <2>4, <2>5, <2>6, <2>7 DEF LiftStep
<1> QED BY <1>2, <1>3

\* Every step keeps LoopActsOnDue: only a punishment writes a record, and none
\* runs for a user the loop has in hand.
LEMMA LoopActsOnDueStep ==
  ASSUME Serialized, TypeOK, InHand, BanFacts, LoopActsOnDue, [Next]_vars
  PROVE  LoopActsOnDue'
<1> USE DEF panelVars, rowVars
<1>t. /\ registry \in [Users -> Records] /\ lift \in [Lifters -> Lifts]
      /\ enf \in [Users -> Enforcements] /\ now \in Int /\ Loop \in Lifters
      /\ TimeToActive \in Int
  BY ConstantsAssumption DEF TypeOK
<1>1. ASSUME StillToLift(Loop)' \subseteq StillToLift(Loop), now' = now \/ now' = now + 1,
             \A u \in StillToLift(Loop) : registry'[u] = registry[u] \/ ~registry'[u].disabled
      PROVE  LoopActsOnDue'
  <2> SUFFICES ASSUME NEW u \in StillToLift(Loop)', registry'[u].disabled
               PROVE  /\ registry'[u].enable_at # Permanent
                      /\ registry'[u].enable_at # Unset => registry'[u].enable_at <= now'
                      /\ registry'[u].enable_at = Unset
                           => registry'[u].disabled_at + TimeToActive <= now'
    BY DEF LoopActsOnDue
  <2>1. u \in StillToLift(Loop) /\ registry'[u] = registry[u]
    BY <1>1
  <2>2. registry[u] \in Records
    BY <1>t, <2>1, StillInHandling
  <2>3. registry[u].enable_at \in Int /\ registry[u].disabled_at \in Int
    BY <2>2 DEF Records
  <2>4. /\ registry[u].enable_at # Permanent
        /\ registry[u].enable_at # Unset => registry[u].enable_at <= now
        /\ registry[u].enable_at = Unset => registry[u].disabled_at + TimeToActive <= now
    BY <2>1 DEF LoopActsOnDue
  <2> QED BY <1>1, <1>t, <2>1, <2>3, <2>4
<1>2. ASSUME NEW u \in Users, ClearRecord(u)
      PROVE  \A w \in Users : registry'[w] = registry[w] \/ ~registry'[w].disabled
  BY <1>2, <1>t DEF ClearRecord, NotDisabled
<1>3. ASSUME NEW u \in Users, EnforcementStep(u) PROVE LoopActsOnDue'
  <2>1. lift' = lift /\ now' = now /\ enf[u].pc # "idle"
    BY <1>3 DEF EnforcementStep, ReadProvenance, DisableDetails, PrepareProvenance, PutDisable,
       PutDisableLost, StoreDisable, DisableFails
  <2>2. u \notin StillToLift(Loop)
    BY <1>t, <2>1, StillInHandling DEF BanFacts, Exclusion
  <2>3. \A w \in Users \ {u} : registry'[w] = registry[w]
    BY <1>3, <1>t DEF EnforcementStep, ReadProvenance, DisableDetails, PrepareProvenance,
       PutDisable, PutDisableLost, StoreDisable, DisableFails
  <2>4. StillToLift(Loop)' \subseteq StillToLift(Loop)
    BY <2>1 DEF StillToLift
  <2> QED BY <1>1, <2>1, <2>2, <2>3, <2>4, StillInHandling
<1>4. ASSUME NEW l \in Lifters, LiftStep(l) PROVE LoopActsOnDue'
  <2>1. now' = now /\ \A w \in Users : registry'[w] = registry[w] \/ ~registry'[w].disabled
    BY <1>2, <1>4 DEF LiftStep, LiftRead, RegistryEnable, LiftDetails, PutEnable, PutEnableLost,
       LiftFails, ClearFlags, ClearFlagsFails, LiftReported, InHand
  <2> QED BY <1>1, <1>4, <2>1, LoopShrinks, StillInHandling
<1>5. CASE EnableLoop
  <2>1. lift'[Loop].todo = {u \in Users : Due(u)} /\ lift'[Loop].pc = "read"
    BY <1>5, <1>t DEF EnableLoop, StartLift, LiftIdle
  <2>2. StillToLift(Loop)' = {u \in Users : Due(u)} /\ registry' = registry /\ now' = now
    BY <1>5, <2>1 DEF StillToLift, EnableLoop, StartLift
  <2>3. ASSUME NEW u \in Users, Due(u)
        PROVE  /\ registry[u].enable_at # Permanent
               /\ registry[u].enable_at # Unset => registry[u].enable_at <= now
               /\ registry[u].enable_at = Unset => registry[u].disabled_at + TimeToActive <= now
    <3>1. registry[u].enable_at \in Int /\ registry[u].disabled_at \in Int
      BY <1>t DEF Records
    <3> QED BY <1>t, <2>3, <3>1 DEF Due
  <2> QED BY <2>2, <2>3 DEF LoopActsOnDue
<1>6. ASSUME UNCHANGED registry, UNCHANGED lift \/ StillToLift(Loop)' \subseteq StillToLift(Loop),
             now' = now \/ now' = now + 1
      PROVE  LoopActsOnDue'
  BY <1>1, <1>6 DEF StillToLift
<1>7. ASSUME NEW l \in Lifters, ManualEnable(l) PROVE LoopActsOnDue'
  <2>1. lift'[Loop] = lift[Loop] /\ registry' = registry /\ now' = now
    BY <1>7, <1>t DEF ManualEnable, StartLift
  <2> QED BY <1>6, <2>1 DEF StillToLift
<1>8. CASE Crash
  <2>1. StillToLift(Loop)' = {}
    BY <1>8, <1>t DEF Crash, LiftIdle, StillToLift
  <2> QED BY <2>1 DEF LoopActsOnDue
<1>9. ASSUME NEW u \in Users, CliEnable(u) PROVE LoopActsOnDue'
  BY <1>1, <1>2, <1>9, StillInHandling DEF CliEnable, StillToLift
<1> QED
  BY <1>3, <1>4, <1>5, <1>6, <1>7, <1>8, <1>9
     DEF Next, DisableUser, AdminActivate, AdminDelete, AdminEdit, ChangeSettings, Tick, vars

\* As long as a punishment and an enable of one user do not overlap, the enable
\* loop never acts on a permanent ban or on one whose time has not come, however
\* long its batch takes (enable_dis_user, UserCRUD.get_users_to_enable).
THEOREM LoopLiftsOnlyDue == ASSUME Serialized PROVE Spec => []LoopActsOnDue
<1>1. Init => LoopActsOnDue
  BY ConstantsAssumption DEF Init, LoopActsOnDue, StillToLift, LiftIdle
<1>2. TypeOK /\ InHand /\ BanFacts /\ LoopActsOnDue /\ [Next]_vars => LoopActsOnDue'
  BY LoopActsOnDueStep
<1> QED BY <1>1, <1>2, BanFactsHold, PTL DEF Spec

---------------------------------------------------------------------------
(* InverseExact, and the promise of PanelBan.                              *)

\* Besides, no administrator changes the groups of a user who is not banned.
Undisturbed == Serialized /\ "edit" \notin Disturbances

\* A stored inverse by group tells where the user is and where the user belongs.
InverseKnows(u) ==
  (status[u] # "deleted" /\ prov[u].method = "group") =>
    /\ \E g \in Groups : prov[u].applied = {g}
    /\ ban[u].by = "none" => groups[u] = prov[u].original
    /\ ban[u].by = "group" => prov[u].original = ban[u].home /\ groups[u] = prov[u].applied

\* A punishment by group stages the groups the user still has, and sends those staged.
SnapshotFresh(u) ==
  (status[u] # "deleted" /\ enf[u].plan # ByStatus) =>
    /\ enf[u].pc = "prepare" => enf[u].snap = groups[u]
    /\ enf[u].pc = "put" => enf[u].snap = prov[u].applied

\* A lifter with an inverse by group in hand gives back what the ban took, also when
\* another lifter came first.
GivesBack(l) ==
  /\ lift[l].pc \in {"details", "put"}
  /\ lift[l].inv.method = "group"
  /\ status[lift[l].cur] # "deleted"
  => /\ ban[lift[l].cur].by # "status"
     /\ ban[lift[l].cur].by = "group" => lift[l].inv = prov[lift[l].cur]
     /\ ban[lift[l].cur].by = "none" => groups[lift[l].cur] = lift[l].inv.original
     /\ lift[l].pc = "put" => lift[l].restored = lift[l].inv.original

\* A user the limiter has not banned is not disabled, and no groups are owed.
DisabledBanned(u) == ban[u].by = "none" => ban[u] = NoBan /\ status[u] # "disabled"

UserFacts(u) == InverseKnows(u) /\ SnapshotFresh(u) /\ DisabledBanned(u)

GroupFacts == (\A u \in Users : UserFacts(u)) /\ (\A l \in Lifters : GivesBack(l))

\* A step of a punishment keeps GroupFacts: an inverse is staged with the groups the
\* user has and kept across retries (_prepare_disable_provenance).
LEMMA EnforcementGroups ==
  ASSUME TypeOK, InHand, BanFacts, GroupFacts, NEW u \in Users, EnforcementStep(u)
  PROVE  GroupFacts'
<1> USE DEF panelVars, rowVars
<1>t. /\ enf \in [Users -> Enforcements] /\ prov \in [Users -> Inverses]
      /\ ban \in [Users -> Bans] /\ status \in [Users -> {"active", "disabled", "deleted"}]
      /\ groups \in [Users -> SUBSET Groups] /\ enf[u] \in Enforcements /\ prov[u] \in Inverses
  BY DEF TypeOK
<1>u. /\ lift' = lift /\ enf[u].pc # "idle"
      /\ \A w \in Users \ {u} : /\ enf'[w] = enf[w] /\ prov'[w] = prov[w] /\ ban'[w] = ban[w]
                                /\ status'[w] = status[w] /\ groups'[w] = groups[w]
  BY <1>t DEF EnforcementStep, ReadProvenance, DisableDetails, PrepareProvenance, PutDisable,
       PutDisableLost, StoreDisable, DisableFails, EnfEnd, EnfGoto, EnfIdle, ApplyDisable
<1>v. \A l \in Lifters : lift[l].cur # u
  BY <1>u DEF BanFacts, Exclusion, Handling
<1>f. InverseKnows(u) /\ SnapshotFresh(u) /\ DisabledBanned(u)
  BY DEF GroupFacts, UserFacts
<1>1. ASSUME NEW w \in Users \ {u} PROVE UserFacts(w)'
  BY <1>u, <1>1 DEF GroupFacts, UserFacts, InverseKnows, SnapshotFresh, DisabledBanned
<1>2. ASSUME NEW l \in Lifters PROVE GivesBack(l)'
  BY <1>u, <1>v, <1>2 DEF GroupFacts, GivesBack, InHand
<1> SUFFICES InverseKnows(u)' /\ SnapshotFresh(u)' /\ DisabledBanned(u)'
  BY <1>1, <1>2 DEF GroupFacts, UserFacts
<1>3. CASE UNCHANGED <<panelVars, prov>> /\ enf'[u].pc \notin {"prepare", "put"}
  BY <1>3, <1>f DEF InverseKnows, SnapshotFresh, DisabledBanned
<1>4. CASE ReadProvenance(u)
  <2>1. UNCHANGED <<panelVars, prov>>
    BY <1>4 DEF ReadProvenance
  <2>2. \/ enf'[u].plan = ByStatus
        \/ enf'[u].pc = "details"
    BY <1>4, <1>t DEF ReadProvenance, Enforcements
  <2> QED BY <1>f, <2>1, <2>2 DEF InverseKnows, SnapshotFresh, DisabledBanned
<1>5. CASE DisableDetails(u)
  <2>1. UNCHANGED <<panelVars, prov>> /\ enf'[u].pc = "prepare" /\ enf'[u].snap = groups[u]
    BY <1>5, <1>t DEF DisableDetails, Enforcements
  <2> QED BY <1>f, <2>1 DEF InverseKnows, SnapshotFresh, DisabledBanned
<1>6. CASE PrepareProvenance(u)
  <2>1. UNCHANGED panelVars /\ DisabledBanned(u)'
    BY <1>6, <1>f DEF PrepareProvenance, DisabledBanned
  <2>2. CASE prov[u].method # "none"
    <3>1. prov'[u] = prov[u]
      BY <1>6, <1>t, <2>2 DEF PrepareProvenance
    <3>2. enf'[u].pc \in {"put", "idle"} /\ (enf'[u].pc = "put" => enf'[u].snap = prov[u].applied)
      BY <1>6, <1>t, <2>2 DEF PrepareProvenance, EnfEnd, EnfIdle, Enforcements
    <3> QED BY <1>f, <2>1, <3>1, <3>2 DEF InverseKnows, SnapshotFresh
  <2>3. CASE prov[u].method = "none" /\ enf[u].plan = ByStatus
    <3>1. prov'[u] = StatusInverse
      BY <1>6, <1>t, <2>3 DEF PrepareProvenance
    <3>2. enf'[u].plan = ByStatus
      BY <1>6, <1>t, <2>3 DEF PrepareProvenance, EnfEnd, EnfIdle, Enforcements
    <3> QED BY <2>1, <3>1, <3>2 DEF InverseKnows, SnapshotFresh, StatusInverse
  <2>4. CASE prov[u].method = "none" /\ enf[u].plan # ByStatus
    <3>1. prov'[u] = GroupInverse(enf[u].snap, enf[u].plan)
      BY <1>6, <1>t, <2>4 DEF PrepareProvenance
    <3>2. /\ prov'[u].original = enf[u].snap /\ prov'[u].applied = {enf[u].plan}
          /\ enf[u].plan \in Groups
      BY <1>t, <2>4, <3>1 DEF GroupInverse, Enforcements
    <3>3. enf'[u].pc = "put" => enf'[u].snap = prov'[u].applied
      BY <1>6, <1>t, <2>4, <3>1 DEF PrepareProvenance, EnfEnd, EnfIdle, Enforcements
    <3>4. enf'[u].pc # "prepare"
      BY <1>6, <1>t, <2>4 DEF PrepareProvenance, EnfEnd, EnfIdle, Enforcements
    <3>5. ban[u].by = "none"
      BY <1>t, <2>4 DEF BanFacts, BanReversible, Bans
    <3>6. status[u] # "deleted" => groups[u] = enf[u].snap
      BY <1>6, <1>f, <2>4 DEF SnapshotFresh, PrepareProvenance
    <3>7. InverseKnows(u)'
      BY <2>1, <3>2, <3>5, <3>6 DEF InverseKnows
    <3> QED BY <2>1, <3>3, <3>4, <3>7 DEF SnapshotFresh
  <2> QED BY <2>2, <2>3, <2>4
<1>7. CASE PutDisable(u) \/ PutDisableLost(u)
  <2>1. enf[u].pc = "put" /\ status[u] # "deleted" /\ ApplyDisable(u) /\ UNCHANGED prov
    BY <1>7 DEF PutDisable, PutDisableLost
  <2>2. prov[u].method = Method(enf[u].plan) /\ (ban[u].by # "none" => ban[u].by = prov[u].method)
    BY <2>1 DEF BanFacts, Staged, BanReversible
  <2>3. /\ enf'[u].pc # "prepare"
        /\ enf'[u].pc = "put" => enf'[u].plan = enf[u].plan /\ enf'[u].snap = enf[u].snap
    BY <1>7, <1>t, <2>1 DEF PutDisable, PutDisableLost, EnfGoto, EnfEnd, EnfIdle, Enforcements
  <2>4. SnapshotFresh(u)'
    BY <1>f, <2>1, <2>3 DEF SnapshotFresh
  <2>5. status'[u] = "disabled" /\ ban'[u].by = Method(enf[u].plan)
    BY <1>t, <2>1, <2>2 DEF ApplyDisable, Method
  <2>6. CASE enf[u].plan = ByStatus
    BY <2>1, <2>2, <2>4, <2>5, <2>6 DEF Method, InverseKnows, DisabledBanned
  <2>7. CASE enf[u].plan # ByStatus
    <3>1. prov[u].method = "group" /\ ban'[u].by = "group"
      BY <2>2, <2>5, <2>7 DEF Method
    <3>2. enf[u].snap = prov[u].applied
      BY <1>f, <2>1, <2>7 DEF SnapshotFresh
    <3>3. groups'[u] = prov[u].applied
      BY <1>t, <2>1, <2>7, <3>2 DEF ApplyDisable
    <3>4. ban'[u].home = prov[u].original
      BY <1>t, <1>f, <2>1, <2>2, <3>1 DEF ApplyDisable, InverseKnows
    <3>5. \E g \in Groups : prov[u].applied = {g}
      BY <1>f, <2>1, <3>1 DEF InverseKnows
    <3>6. InverseKnows(u)'
      BY <2>1, <3>1, <3>3, <3>4, <3>5 DEF InverseKnows
    <3> QED BY <2>4, <2>5, <3>1, <3>6 DEF DisabledBanned
  <2> QED BY <2>6, <2>7
<1>8. CASE StoreDisable(u) \/ DisableFails(u)
  <2>1. enf'[u].pc = "idle" /\ UNCHANGED <<panelVars, prov>>
    BY <1>8, <1>t DEF StoreDisable, DisableFails, EnfEnd, EnfIdle
  <2> QED BY <1>3, <2>1
<1> QED BY <1>4, <1>5, <1>6, <1>7, <1>8 DEF EnforcementStep

\* What an enabling PUT does to its user (enable_user_by_group,
\* enable_user_by_status): active, no ban, the groups back.
LEMMA Enabled ==
  ASSUME TypeOK, InHand, BanFacts, GroupFacts, NEW l \in Lifters, lift[l].pc = "put",
         status[lift[l].cur] # "deleted", ApplyEnable(l), NEW c \in Users, c = lift[l].cur
  PROVE  /\ status' = [status EXCEPT ![c] = "active"] /\ ban' = [ban EXCEPT ![c] = NoBan]
         /\ groups' = IF ban[c].by = "group" THEN [groups EXCEPT ![c] = ban[c].home] ELSE groups
<1>t. /\ groups \in [Users -> SUBSET Groups] /\ ban[c] \in Bans /\ prov[c] \in Inverses
  BY DEF TypeOK
<1>g. InverseKnows(c) /\ GivesBack(l) /\ (ban[c].by # "none" => prov[c].method = ban[c].by)
  BY DEF GroupFacts, UserFacts, BanFacts, BanReversible
<1>1. lift[l].inv.method # "group" => ban[c].by # "group"
  BY DEF BanFacts, LiftPlan
<1>2. CASE lift[l].inv.method # "group"
  BY <1>1, <1>2 DEF ApplyEnable
<1>3. CASE lift[l].inv.method = "group" /\ ban[c].by = "group"
  <2>1. lift[l].restored = ban[c].home
    BY <1>g, <1>3 DEF GivesBack, InverseKnows
  <2> QED BY <1>3, <2>1 DEF ApplyEnable
<1>4. CASE lift[l].inv.method = "group" /\ ban[c].by # "group"
  <2>1. ban[c].by = "none" /\ lift[l].restored = groups[c]
    BY <1>t, <1>g, <1>4 DEF GivesBack, Bans
  <2>2. [groups EXCEPT ![c] = lift[l].restored] = groups
    BY <1>t, <2>1
  <2> QED BY <1>4, <2>2 DEF ApplyEnable
<1> QED BY <1>2, <1>3, <1>4

\* A step of an enable keeps GroupFacts: whoever comes second gives back the same.
LEMMA LiftGroups ==
  ASSUME TypeOK, InHand, BanFacts, GroupFacts, NEW l \in Lifters, LiftStep(l)
  PROVE  GroupFacts'
<1> USE DEF panelVars, rowVars
<1>t. /\ lift \in [Lifters -> Lifts] /\ lift[l] \in Lifts /\ prov \in [Users -> Inverses]
      /\ ban \in [Users -> Bans] /\ status \in [Users -> {"active", "disabled", "deleted"}]
      /\ groups \in [Users -> SUBSET Groups]
  BY DEF TypeOK
<1>u. enf' = enf /\ \A m \in Lifters \ {l} : lift'[m] = lift[m]
  BY <1>t DEF LiftStep, LiftRead, RegistryEnable, LiftDetails, PutEnable, PutEnableLost,
     LiftFails, ClearFlags, ClearFlagsFails, LiftReported, NextUser
<1>n. ASSUME NEW left, NEW done, NextUser(l, left, done) PROVE lift'[l].pc = "read"
  BY <1>t, <1>n DEF NextUser, LiftIdle
<1>1. ASSUME UNCHANGED <<panelVars, prov>>, GivesBack(l)' PROVE GroupFacts'
  BY <1>1, <1>u DEF GroupFacts, UserFacts, InverseKnows, SnapshotFresh, DisabledBanned, GivesBack
<1>2. ASSUME UNCHANGED <<panelVars, prov>>, lift'[l].pc \notin {"details", "put"} PROVE GroupFacts'
  BY <1>1, <1>2 DEF GivesBack
<1>3. ASSUME NEW u \in Users, LiftRead(l, u) PROVE GroupFacts'
  <2>1. /\ lift'[l].cur = u /\ lift'[l].inv = prov[u] /\ UNCHANGED <<panelVars, prov>>
        /\ lift'[l].pc = IF prov[u].method = "group" THEN "details" ELSE "put"
    BY <1>3, <1>t DEF LiftRead, Lifts
  <2>2. InverseKnows(u) /\ (ban[u].by # "none" => prov[u].method = ban[u].by)
    BY DEF GroupFacts, UserFacts, BanFacts, BanReversible
  <2>3. GivesBack(l)'
    BY <2>1, <2>2 DEF GivesBack, InverseKnows
  <2> QED BY <1>1, <2>1, <2>3
<1>4. CASE LiftDetails(l)
  <2> DEFINE r == RestoredGroups(lift[l].inv, groups[lift[l].cur])
  <2>1. UNCHANGED <<panelVars, prov>> /\ lift[l].pc = "details" /\ lift[l].cur \in Users
    BY <1>4 DEF LiftDetails, InHand
  <2>2. CASE status[lift[l].cur] = "deleted"
    <3>1. lift'[l].pc = "clear"
      BY <1>4, <1>t, <2>2 DEF LiftDetails
    <3> QED BY <1>2, <2>1, <3>1
  <2>3. CASE status[lift[l].cur] # "deleted"
    <3>1. /\ lift'[l].pc = "put" /\ lift'[l].restored = r
          /\ lift'[l].cur = lift[l].cur /\ lift'[l].inv = lift[l].inv
      BY <1>4, <1>t, <2>3 DEF LiftDetails, Lifts
    <3>2. ASSUME lift[l].inv.method = "group" PROVE r = lift[l].inv.original
      <4>1. GivesBack(l) /\ InverseKnows(lift[l].cur)
        BY <2>1 DEF GroupFacts, UserFacts
      <4>2. ban[lift[l].cur].by \in {"none", "group"}
        BY <1>t, <2>1, <2>3, <3>2, <4>1 DEF GivesBack, Bans
      <4>3. CASE ban[lift[l].cur].by = "group"
        <5>1. groups[lift[l].cur] = lift[l].inv.applied
          BY <2>1, <2>3, <3>2, <4>1, <4>3 DEF GivesBack, InverseKnows
        <5> QED BY <5>1 DEF RestoredGroups
      <4>4. CASE ban[lift[l].cur].by = "none"
        <5>1. groups[lift[l].cur] = lift[l].inv.original
          BY <2>1, <2>3, <3>2, <4>1, <4>4 DEF GivesBack
        <5> QED BY <5>1 DEF RestoredGroups
      <4> QED BY <4>2, <4>3, <4>4
    <3> HIDE DEF r
    <3>3. GivesBack(l)'
      BY <2>1, <2>3, <3>1, <3>2 DEF GroupFacts, GivesBack
    <3> QED BY <1>1, <2>1, <3>3
  <2> QED BY <2>2, <2>3
<1>5. ASSUME lift[l].pc = "put", status[lift[l].cur] # "deleted", ApplyEnable(l), UNCHANGED prov,
             lift' = lift \/ lift'[l].pc \in {"clear", "read"}
      PROVE  GroupFacts'
  <2>1. PICK c \in Users : c = lift[l].cur
    BY <1>5 DEF InHand
  <2>2. /\ status' = [status EXCEPT ![c] = "active"] /\ ban' = [ban EXCEPT ![c] = NoBan]
        /\ groups' = IF ban[c].by = "group" THEN [groups EXCEPT ![c] = ban[c].home] ELSE groups
    BY <1>5, <2>1, Enabled
  <2>3. /\ \A w \in Users \ {c} :
             status'[w] = status[w] /\ ban'[w] = ban[w] /\ groups'[w] = groups[w]
        /\ status'[c] = "active" /\ ban'[c].by = "none" /\ status[c] # "deleted"
        /\ ban'[c] = NoBan
        /\ groups'[c] = IF ban[c].by = "group" THEN ban[c].home ELSE groups[c]
    BY <1>5, <1>t, <2>1, <2>2 DEF NoBan
  <2>4. InverseKnows(c)'
    <3>1. InverseKnows(c) /\ ban[c].by \in {"none", "status", "group"}
          /\ (ban[c].by # "none" => prov[c].method = ban[c].by)
      BY <1>t DEF GroupFacts, UserFacts, Bans, BanFacts, BanReversible
    <3> QED BY <1>5, <2>3, <3>1 DEF InverseKnows
  <2>5. enf[c].pc = "idle"
    BY <1>5, <2>1 DEF BanFacts, Exclusion, Handling
  <2>6. SnapshotFresh(c)' /\ DisabledBanned(c)'
    BY <1>u, <2>3, <2>5 DEF SnapshotFresh, DisabledBanned
  <2>7. ASSUME NEW w \in Users PROVE UserFacts(w)'
    <3>1. CASE w = c
      BY <2>4, <2>6, <3>1 DEF UserFacts
    <3>2. CASE w # c
      BY <1>5, <1>u, <2>3, <3>2 DEF GroupFacts, UserFacts, InverseKnows, SnapshotFresh, DisabledBanned
    <3> QED BY <3>1, <3>2
  <2>8. ASSUME NEW m \in Lifters PROVE GivesBack(m)'
    <3>1. lift'[m] = lift[m] \/ lift'[m].pc \notin {"details", "put"}
      BY <1>5, <1>u
    <3>2. CASE lift'[m] = lift[m] /\ lift[m].cur = c
      <4>1. GivesBack(m) /\ InverseKnows(c) /\ ban[c].by \in {"none", "status", "group"}
        BY <1>t, <2>1 DEF GroupFacts, UserFacts, Bans
      <4>2. (ban[c].by # "none" => prov[c].method = ban[c].by)
        BY DEF BanFacts, BanReversible
      <4> QED BY <2>3, <3>2, <4>1, <4>2 DEF GivesBack, InverseKnows
    <3>3. CASE lift'[m] = lift[m] /\ lift[m].cur # c
      BY <1>5, <2>3, <3>3 DEF GroupFacts, GivesBack, InHand
    <3>4. CASE lift'[m].pc \notin {"details", "put"}
      BY <3>4 DEF GivesBack
    <3> QED BY <3>1, <3>2, <3>3, <3>4
  <2> QED BY <2>7, <2>8 DEF GroupFacts
<1>6. CASE PutEnable(l)
  <2>1. lift[l].pc = "put" /\ lift'[l].pc = "clear" /\ UNCHANGED prov
    BY <1>6, <1>t DEF PutEnable, Lifts
  <2> QED BY <1>2, <1>5, <1>6, <2>1 DEF PutEnable
<1>7. CASE PutEnableLost(l)
  <2>1. lift' = lift \/ lift'[l].pc = "read"
    BY <1>7, <1>n DEF PutEnableLost
  <2> QED BY <1>5, <1>7, <2>1 DEF PutEnableLost
<1>8. CASE ClearFlags(l)
  <2>1. PICK c \in Users : c = lift[l].cur
    BY <1>8 DEF ClearFlags, InHand
  <2>2. /\ UNCHANGED panelVars /\ prov'[c] = NoInverse /\ lift'[l].pc = "read" /\ lift[l].pc = "clear"
        /\ \A w \in Users \ {c} : prov'[w] = prov[w]
    BY <1>8, <1>n, <1>t, <2>1 DEF ClearFlags
  <2>3. ban[c].by = "none" /\ enf[c].pc = "idle"
    BY <2>1, <2>2 DEF BanFacts, Lifted, Exclusion, Handling
  <2>4. ASSUME NEW w \in Users PROVE UserFacts(w)'
    <3>1. CASE w = c
      BY <1>u, <2>2, <2>3, <3>1
         DEF GroupFacts, UserFacts, InverseKnows, SnapshotFresh, DisabledBanned, NoInverse
    <3>2. CASE w # c
      BY <1>u, <2>2, <3>2 DEF GroupFacts, UserFacts, InverseKnows, SnapshotFresh, DisabledBanned
    <3> QED BY <3>1, <3>2
  <2>5. ASSUME NEW m \in Lifters PROVE GivesBack(m)'
    <3>1. lift'[m] = lift[m] \/ lift'[m].pc \notin {"details", "put"}
      BY <1>u, <2>2
    <3> QED BY <2>2, <2>3, <3>1 DEF GroupFacts, GivesBack, InHand
  <2> QED BY <2>4, <2>5 DEF GroupFacts
<1>9. CASE ClearFlagsFails(l)
  BY <1>2, <1>9, <1>n DEF ClearFlagsFails
<1>10. CASE LiftFails(l)
  <2>1. lift'[l].pc = "read"
    BY <1>10, <1>n DEF LiftFails
  <2> QED BY <1>2, <1>10, <2>1 DEF LiftFails
<1>11. CASE LiftReported(l)
  <2>1. lift'[l].pc \in {"idle", "enable"}
    BY <1>11, <1>t DEF LiftReported, Lifts
  <2> QED BY <1>2, <1>11, <2>1 DEF LiftReported
<1>12. ASSUME NEW u \in Users, RegistryEnable(l, u) PROVE GroupFacts'
  <2>1. lift'[l].pc \in {"idle", "enable"}
    BY <1>12, <1>t DEF RegistryEnable, Lifts
  <2> QED BY <1>2, <1>12, <2>1 DEF RegistryEnable
<1> QED BY <1>3, <1>4, <1>6, <1>7, <1>8, <1>9, <1>10, <1>11, <1>12 DEF LiftStep

\* Every step keeps GroupFacts, when nobody edits the groups behind the limiter's back.
LEMMA GroupFactsStep ==
  ASSUME Undisturbed, TypeOK, InHand, BanFacts, GroupFacts, [Next]_vars PROVE GroupFacts'
<1> USE DEF panelVars, rowVars
<1>t. /\ enf \in [Users -> Enforcements] /\ ban \in [Users -> Bans] /\ lift \in [Lifters -> Lifts]
      /\ status \in [Users -> {"active", "disabled", "deleted"}]
  BY DEF TypeOK
<1>1. ASSUME UNCHANGED <<panelVars, prov>>,
             \A u \in Users : enf'[u] = enf[u] \/ enf'[u].pc \notin {"prepare", "put"},
             \A l \in Lifters : lift'[l] = lift[l] \/ lift'[l].pc \notin {"details", "put"}
      PROVE  GroupFacts'
  BY <1>1 DEF GroupFacts, UserFacts, InverseKnows, SnapshotFresh, DisabledBanned, GivesBack
<1>2. ASSUME NEW u \in Users, NEW term \in Terms, DisableUser(u, term) PROVE GroupFacts'
  BY <1>1, <1>2, <1>t DEF DisableUser, EnfIdle
<1>3. ASSUME NEW l \in Lifters, NEW batch, StartLift(l, batch) PROVE GroupFacts'
  BY <1>1, <1>3, <1>t DEF StartLift, LiftIdle
<1>4. CASE EnableLoop \/ \E l \in Lifters : ManualEnable(l)
  BY <1>3, <1>4, ConstantsAssumption DEF EnableLoop, ManualEnable
<1>5. ASSUME NEW u \in Users, AdminActivate(u) \/ AdminDelete(u) PROVE GroupFacts'
  <2>1. /\ UNCHANGED <<groups, prov, enf, lift>>
        /\ \A w \in Users \ {u} : status'[w] = status[w] /\ ban'[w] = ban[w]
    BY <1>5, <1>t DEF AdminActivate, AdminDelete
  <2>2. CASE AdminDelete(u)
    <3>1. status'[u] = "deleted" /\ ban'[u] = NoBan
      BY <1>t, <2>2 DEF AdminDelete
    <3> QED BY <2>1, <3>1
            DEF GroupFacts, UserFacts, InverseKnows, SnapshotFresh, DisabledBanned, GivesBack, InHand
  <2>3. CASE AdminActivate(u)
    <3>1. /\ status[u] = "disabled" /\ status'[u] = "active"
          /\ ban'[u] = IF ban[u].by = "group" THEN ban[u] ELSE NoBan
      BY <1>t, <2>3 DEF AdminActivate
    <3>2. ban[u].by = "status" => prov[u].method = "status"
      BY DEF BanFacts, BanReversible
    <3>3. ban[u].by \in {"group", "status"}
      BY <1>t, <3>1 DEF GroupFacts, UserFacts, DisabledBanned, Bans
    <3>4. ASSUME NEW w \in Users PROVE UserFacts(w)'
      <4>1. CASE w = u
        BY <2>1, <3>1, <3>2, <3>3, <4>1
           DEF GroupFacts, UserFacts, InverseKnows, SnapshotFresh, DisabledBanned, NoBan
      <4>2. CASE w # u
        BY <2>1, <4>2 DEF GroupFacts, UserFacts, InverseKnows, SnapshotFresh, DisabledBanned
      <4> QED BY <4>1, <4>2
    <3>5. ASSUME NEW l \in Lifters PROVE GivesBack(l)'
      <4>1. CASE lift[l].cur = u
        BY <2>1, <3>1, <3>2, <3>3, <4>1 DEF GroupFacts, GivesBack, NoBan
      <4>2. CASE lift[l].cur # u
        BY <2>1, <4>2 DEF GroupFacts, GivesBack, InHand
      <4> QED BY <4>1, <4>2
    <3> QED BY <3>4, <3>5 DEF GroupFacts
  <2> QED BY <1>5, <2>2, <2>3
<1>6. CASE Crash
  BY <1>1, <1>6 DEF Crash, EnfIdle, LiftIdle
<1>7. ASSUME NEW u \in Users, NEW gs, AdminEdit(u, gs) PROVE FALSE
  BY <1>7 DEF AdminEdit, May, Undisturbed
<1> QED
  BY <1>1, <1>2, <1>4, <1>5, <1>6, <1>7, EnforcementGroups, LiftGroups
     DEF Next, CliEnable, ChangeSettings, Tick, vars

\* GroupFacts holds in every reachable state.
LEMMA GroupFactsHold ==
  ASSUME Undisturbed PROVE Spec => [](TypeOK /\ InHand /\ BanFacts /\ GroupFacts)
<1>1. Init => GroupFacts
  BY DEF Init, GroupFacts, UserFacts, InverseKnows, SnapshotFresh, DisabledBanned, GivesBack,
         NoInverse, EnfIdle, LiftIdle
<1>2. TypeOK /\ InHand /\ BanFacts /\ GroupFacts /\ [Next]_vars => GroupFacts'
  BY GroupFactsStep
<1>3. Spec => [](TypeOK /\ InHand /\ BanFacts)
  BY BanFactsHold DEF Undisturbed
<1> QED BY <1>1, <1>2, <1>3, PTL DEF Spec

\* As long as, besides, nobody edits the groups of a user behind the limiter's back, the
\* inverse of a group ban holds the groups that ban replaced, whichever attempt staged it
\* (_prepare_disable_provenance keeps the first one).
THEOREM InverseStaysExact == ASSUME Undisturbed PROVE Spec => []InverseExact
<1>1. BanFacts /\ GroupFacts => InverseExact
  BY DEF BanFacts, BanReversible, DeletedFree, GroupFacts, UserFacts, InverseKnows, InverseExact
<1> QED BY <1>1, GroupFactsHold, PTL

\* A disabling PUT is one imposition, or a repetition that changes nothing else
\* (disable_user_by_status, disable_user_by_group).
LEMMA PutImposes ==
  ASSUME TypeOK, BanFacts, GroupFacts, NEW u \in Users, enf[u].pc = "put",
         status[u] # "deleted", ApplyDisable(u)
  PROVE  Promise!Impose(u) \/ Promise!Repeat(u)
<1>t. /\ ban \in [Users -> Bans] /\ groups \in [Users -> SUBSET Groups] /\ ban[u] \in Bans
      /\ ban[u] = [by |-> ban[u].by, home |-> ban[u].home]
  BY DEF TypeOK, Bans
<1>m. /\ prov[u].method = Method(enf[u].plan)
      /\ ban[u].by # "none" => ban[u].by = prov[u].method
  BY DEF BanFacts, Staged, BanReversible
<1>k. InverseKnows(u) /\ SnapshotFresh(u)
  BY DEF GroupFacts, UserFacts
<1>1. status' = [status EXCEPT ![u] = "disabled"]
  BY DEF ApplyDisable
<1>2. CASE ban[u].by = "none"
  <2>1. CASE enf[u].plan = ByStatus
    BY <1>1, <1>2, <2>1 DEF ApplyDisable, Promise!Impose, Promise!Banned
  <2>2. CASE enf[u].plan # ByStatus
    <3>1. PICK g \in Groups : enf[u].snap = {g}
      BY <1>m, <1>k, <2>2 DEF InverseKnows, SnapshotFresh, Method
    <3>2. /\ groups' = [groups EXCEPT ![u] = {g}]
          /\ ban' = [ban EXCEPT ![u] = [by |-> "group", home |-> groups[u]]]
      BY <1>2, <2>2, <3>1 DEF ApplyDisable
    <3> QED BY <1>1, <1>2, <3>2 DEF Promise!Impose, Promise!Banned
  <2> QED BY <2>1, <2>2
<1>3. CASE ban[u].by # "none"
  <2>1. ban' = [ban EXCEPT ![u] = [by |-> ban[u].by, home |-> ban[u].home]]
    BY <1>m, <1>3 DEF ApplyDisable, Method
  <2>2. ban' = ban
    BY <1>t, <2>1
  <2>3. groups' = groups
    <3>1. CASE enf[u].plan = ByStatus
      BY <3>1 DEF ApplyDisable
    <3>2. CASE enf[u].plan # ByStatus
      <4>1. enf[u].snap = groups[u]
        BY <1>m, <1>k, <1>3, <3>2 DEF InverseKnows, SnapshotFresh, Method
      <4> QED BY <1>t, <3>2, <4>1 DEF ApplyDisable
    <3> QED BY <3>1, <3>2
  <2> QED BY <1>1, <1>3, <2>2, <2>3 DEF Promise!Repeat, Promise!Banned
<1> QED BY <1>2, <1>3

\* An enabling PUT lifts the ban, or finds nothing to lift.
LEMMA PutLifts ==
  ASSUME TypeOK, InHand, BanFacts, GroupFacts, NEW l \in Lifters, lift[l].pc = "put",
         status[lift[l].cur] # "deleted", ApplyEnable(l)
  PROVE  Promise!Next \/ UNCHANGED Promise!vars
<1>1. PICK c \in Users : c = lift[l].cur
  BY DEF InHand
<1>2. /\ status' = [status EXCEPT ![c] = "active"] /\ ban' = [ban EXCEPT ![c] = NoBan]
      /\ groups' = IF ban[c].by = "group" THEN [groups EXCEPT ![c] = ban[c].home] ELSE groups
  BY <1>1, Enabled
<1>3. CASE ban[c].by # "none"
  <2>1. Promise!Lift(c)
    BY <1>1, <1>2, <1>3 DEF Promise!Lift, Promise!Banned, Promise!NoBan, NoBan
  <2> QED BY <2>1 DEF Promise!Next
<1>4. CASE ban[c].by = "none"
  <2>1. status[c] = "active" /\ ban[c] = NoBan
    BY <1>1, <1>4 DEF TypeOK, GroupFacts, UserFacts, DisabledBanned
  <2>2. status' = status /\ groups' = groups /\ ban' = ban
    BY <1>2, <1>4, <2>1 DEF TypeOK
  <2> QED BY <2>2 DEF Promise!vars
<1> QED BY <1>3, <1>4

\* Every step is a step of the promise, or a stutter.
LEMMA PromiseStep ==
  ASSUME Undisturbed, TypeOK, InHand, BanFacts, GroupFacts, [Next]_vars
  PROVE  [Promise!Next]_(Promise!vars)
<1> USE DEF panelVars, rowVars
<1>1. CASE UNCHANGED panelVars
  BY <1>1 DEF Promise!vars
<1>2. ASSUME NEW u \in Users, EnforcementStep(u) PROVE [Promise!Next]_(Promise!vars)
  <2>1. CASE PutDisable(u) \/ PutDisableLost(u)
    <3>1. Promise!Impose(u) \/ Promise!Repeat(u)
      BY <2>1, PutImposes DEF PutDisable, PutDisableLost
    <3> QED BY <3>1 DEF Promise!Next
  <2>2. CASE ~(PutDisable(u) \/ PutDisableLost(u))
    BY <1>1, <1>2, <2>2
       DEF EnforcementStep, ReadProvenance, DisableDetails, PrepareProvenance, StoreDisable, DisableFails
  <2> QED BY <2>1, <2>2
<1>3. ASSUME NEW l \in Lifters, LiftStep(l) PROVE [Promise!Next]_(Promise!vars)
  <2>1. CASE lift[l].pc = "put" /\ status[lift[l].cur] # "deleted" /\ ApplyEnable(l)
    BY <2>1, PutLifts
  <2>2. CASE ~(lift[l].pc = "put" /\ status[lift[l].cur] # "deleted" /\ ApplyEnable(l))
    BY <1>1, <1>3, <2>2
       DEF LiftStep, LiftRead, RegistryEnable, LiftDetails, PutEnable, PutEnableLost, LiftFails,
           ClearFlags, ClearFlagsFails, LiftReported
  <2> QED BY <2>1, <2>2
<1>4. ASSUME NEW u \in Users, AdminActivate(u) \/ AdminDelete(u)
      PROVE  [Promise!Next]_(Promise!vars)
  <2>1. Promise!AdminActivate(u) \/ Promise!AdminDelete(u)
    BY <1>4 DEF AdminActivate, AdminDelete, NoBan,
                Promise!AdminActivate, Promise!AdminDelete, Promise!NoBan
  <2> QED BY <2>1 DEF Promise!Next
<1>5. ASSUME NEW u \in Users, NEW gs, AdminEdit(u, gs) PROVE FALSE
  BY <1>5 DEF AdminEdit, May, Undisturbed
<1> QED
  BY <1>1, <1>2, <1>3, <1>4, <1>5
     DEF Next, DisableUser, CliEnable, EnableLoop, ManualEnable, StartLift, ChangeSettings, Tick,
         Crash, vars

\* The whole life cycle - staging, lost answers, retries, refusals, failing sessions,
\* crashes, several lifters, an administrator who activates and deletes users - imposes
\* and lifts a ban on the panel as PanelBan says: in one step each, giving back exactly
\* the groups that were taken (disable_user_by_group, enable_user_by_group).
THEOREM LifecycleKeepsPromise == ASSUME Undisturbed PROVE Spec => BanKeepsPromise
<1>1. Init => Promise!Init
  BY DEF Init, Promise!Init, Promise!NoBan, NoBan
<1>2. TypeOK /\ InHand /\ BanFacts /\ GroupFacts /\ [Next]_vars => [Promise!Next]_(Promise!vars)
  BY PromiseStep
<1> QED BY <1>1, <1>2, GroupFactsHold, PTL DEF Spec, BanKeepsPromise, Promise!Spec

------------------------------------------------------------------------------
(* The facts of the daily report. *)

\* The report is not an action.
Distinct == Report \notin Incidents

\* Without a database that fails, an outbox that cannot be written and a crash together,
\* what has been announced is not lost.
Recoverable == ~({"crash", "database", "outbox"} \subseteq FactFaults)

\* A snapshot of an incident that has anything to say says it of its fact, if it says
\* that it is final.
Sound(i, s) == (s = F!None \/ s.state # "none") /\ (s.state = "completed" => s = fact[i])

\* Wherever snapshots are kept, they are sound.
Kept(i) == Sound(i, pending[i]) /\ Sound(i, outbox[i]) /\ Sound(i, sql[i]) /\ Sound(i, report.todo[i])

Carried(o) ==
  job[o].pc \in {"wait", "sql"} =>
    F!Subject(o) \in Incidents /\ job[o].snap # F!None /\ Sound(F!Subject(o), job[o].snap)

\* What the fact of an action says, by the stage the action is in.
ActInv(i) ==
  /\ act[i] = "new" => fact[i] = F!None
  /\ act[i] = "opening" => fact[i] = F!Prepared
  /\ act[i] = "body" => fact[i].state # "none"
  /\ act[i] = "body" /\ fact[i].state = "completed" => fact[i].done
  /\ act[i] = "doubt" => fact[i].state # "completed"

FactInv ==
  /\ F!TypeOK
  /\ \A i \in Incidents : Kept(i) /\ ActInv(i)
  /\ \A o \in F!Owners : Carried(o)
  /\ job[Report].pc # "none" => report.pc = "replay"

-----------------------------------------------------------------------------

InSql(i) == sql[i].state # "none"

\* As long as the outbox can be read, an action is in the table or pending.
Announced(i) == act[i] \in {"opening", "body", "over", "doubt"} => InSql(i) \/ pending[i] # F!None

\* The store that precedes the panel request has left it where a crash does not take it.
Durable(i) ==
  /\ act[i] \in {"body", "over", "doubt"} \/ (act[i] = "opening" /\ job[i].pc = "none")
       => InSql(i) \/ (F!May("database") /\ outbox[i] # F!None) \/ ~F!May("crash")
  /\ act[i] = "opening" /\ job[i].pc = "file" => InSql(i) \/ F!May("database")

\* What a report in progress has found out about the actions it is about.
Found(i) ==
  /\ act[i] # "new"
  /\ report.pc \in {"query", "ready"} => act[i] = "dropped" \/ InSql(i)
  /\ report.pc = "ready" => act[i] = "dropped" \/ sql[i].state = "completed"

ReportInv ==
  /\ ~corrupt => \A i \in Incidents : Announced(i) /\ Durable(i)
  /\ \A i \in early : Found(i)
  /\ report.pc # "idle" => late /\ ~corrupt


-----------------------------------------------------------------------------
(* Snapshots and facts.                                                    *)

LEMMA ShapeFacts ==
  /\ F!None \in F!Snapshots /\ F!Prepared \in F!Snapshots /\ F!None # F!Prepared
  /\ F!None.state = "none" /\ F!Prepared.state = "prepared" /\ ~F!Prepared.done
  /\ F!Nothing \in [Incidents -> F!Snapshots] /\ (\A i \in Incidents : F!Nothing[i] = F!None)
  /\ F!NoJob.pc = "none" /\ F!NoJob \in [pc : {"none", "wait", "sql", "file"}, snap : F!Snapshots]
  BY DEF F!None, F!Prepared, F!Snapshots, F!Nothing, F!NoJob

LEMMA IdleReport ==
  /\ F!ReportIdle.pc = "idle" /\ F!ReportIdle.todo = F!Nothing /\ F!ReportIdle.cur = Report
  /\ F!ReportIdle \in [pc : {"idle", "replay", "query", "ready"}, todo : [Incidents -> F!Snapshots], cur : F!Owners]
  BY ShapeFacts DEF F!ReportIdle, F!Owners

\* A snapshot stays sound as long as a final fact does not change.
LEMMA SoundStays ==
  ASSUME NEW i \in Incidents, NEW s, Sound(i, s), fact[i].state = "completed" => fact'[i] = fact[i]
  PROVE  Sound(i, s)'
  BY DEF Sound

LEMMA NoneSound == ASSUME NEW i \in Incidents PROVE Sound(i, F!None) /\ Sound(i, F!Prepared)
  BY ShapeFacts DEF Sound

\* A store writes a sound snapshot, or leaves the final one.
LEMMA StoredSound ==
  ASSUME NEW i \in Incidents, NEW row, NEW snap, Sound(i, row), Sound(i, snap), snap # F!None
  PROVE  Sound(i, F!StoredRow(row, snap)) /\ F!StoredRow(row, snap).state # "none"
  BY DEF Sound, F!StoredRow

-----------------------------------------------------------------------------
(* The types.                                                              *)

\* What a save leaves alone and what it does.
LEMMA SaveFacts ==
  ASSUME F!TypeOK, NEW i \in Incidents, NEW f \in F!Snapshots, F!Save(i, f)
  PROVE  /\ fact' \in [Incidents -> F!Snapshots] /\ pending' \in [Incidents -> F!Snapshots]
         /\ job' \in [F!Owners -> [pc : {"none", "wait", "sql", "file"}, snap : F!Snapshots]]
         /\ fact'[i] = f /\ pending'[i] = f /\ job'[i] = [pc |-> "wait", snap |-> f]
         /\ \A j \in Incidents : j # i => fact'[j] = fact[j] /\ pending'[j] = pending[j]
         /\ \A o \in F!Owners : o # i => job'[o] = job[o]
  BY DEF F!TypeOK, F!Save, F!Owners

\* The steps of an action, each of which saves a snapshot, but for Enter.
Saves(i, f, a) ==
  /\ F!Save(i, f)
  /\ act' = [act EXCEPT ![i] = a]
  /\ UNCHANGED <<F!diskVars, report, late>>

\* What an action in progress makes of its fact.
LEMMA ActionSaves ==
  ASSUME FactInv, NEW i \in Incidents, F!Open(i) \/ F!OpenCancelled(i) \/ F!MarkPartial(i) \/ F!MarkDisabled(i) \/ F!Exit(i)
  PROVE  \E f \in F!Snapshots, a \in {"opening", "body", "over", "doubt"} :
           /\ Saves(i, f, a)
           /\ f # F!None /\ f.state # "none"
           /\ fact[i].state = "completed" => f = fact[i]
           /\ a = "opening" => f = F!Prepared
           /\ a = "body" /\ f.state = "completed" => f.done
           /\ a = "doubt" => f.state # "completed"
           /\ a = "opening" <=> act[i] = "new"
           /\ early' = IF act[i] = "new" /\ ~late THEN early \cup {i} ELSE early
           /\ act[i] = "new" \/ job[i].pc = "none"
           /\ act[i] \in {"new", "opening", "body"}
  <1>0. /\ fact[i] \in F!Snapshots /\ act \in [Incidents -> {"new", "opening", "dropped", "body", "over", "doubt"}]
        /\ ActInv(i)
    BY DEF FactInv, F!TypeOK
  <1>1. CASE F!Open(i)
    <2>1. Saves(i, F!Prepared, "opening")
      BY <1>1 DEF F!Open, Saves
    <2>2. QED
      BY <1>0, <1>1, <2>1, ShapeFacts DEF F!Open, ActInv
  <1>2. CASE F!OpenCancelled(i)
    <2>1. PICK f \in F!Snapshots : f = [fact[i] EXCEPT !.state = "completed"]
      BY <1>0 DEF F!Snapshots
    <2>2. Saves(i, f, "over") /\ f.state = "completed"
      BY <1>0, <1>2, <2>1 DEF F!OpenCancelled, Saves, F!Snapshots
    <2>3. fact[i].state # "completed"
      BY <1>0, <1>2, ShapeFacts DEF F!OpenCancelled, ActInv
    <2>4. QED
      BY <1>2, <2>2, <2>3, ShapeFacts DEF F!OpenCancelled, F!Saved
  <1>3. CASE F!MarkPartial(i)
    <2>1. PICK f \in F!Snapshots : f = [fact[i] EXCEPT !.partial = TRUE]
      BY <1>0 DEF F!Snapshots
    <2>2. f.state = fact[i].state /\ f.done = fact[i].done /\ f.partial
      BY <1>0, <2>1 DEF F!Snapshots
    <2>3. act' = [act EXCEPT ![i] = "body"]
      BY <1>0, <1>3 DEF F!MarkPartial
    <2>4. Saves(i, f, "body")
      BY <1>3, <2>1, <2>3 DEF F!MarkPartial, Saves
    <2>5. fact[i].state # "completed" /\ fact[i].state # "none"
      BY <1>0, <1>3 DEF F!MarkPartial, ActInv
    <2>6. QED
      BY <1>3, <2>2, <2>4, <2>5, ShapeFacts DEF F!MarkPartial, F!Saved
  <1>4. CASE F!MarkDisabled(i)
    <2>1. PICK f \in F!Snapshots : f = [fact[i] EXCEPT !.done = TRUE, !.state = "completed"]
      BY <1>0 DEF F!Snapshots
    <2>2. f.state = "completed" /\ f.done
      BY <1>0, <2>1 DEF F!Snapshots
    <2>3. act' = [act EXCEPT ![i] = "body"]
      BY <1>0, <1>4 DEF F!MarkDisabled
    <2>4. Saves(i, f, "body")
      BY <1>4, <2>1, <2>3 DEF F!MarkDisabled, Saves
    <2>5. fact[i].state # "completed"
      BY <1>0, <1>4 DEF F!MarkDisabled, ActInv
    <2>6. QED
      BY <1>4, <2>2, <2>4, <2>5, ShapeFacts DEF F!MarkDisabled, F!Saved
  <1>5. CASE F!Exit(i)
    <2>1. PICK normal \in BOOLEAN : /\ F!Save(i, F!Outcome(fact[i], normal))
                                    /\ act' = [act EXCEPT ![i] = IF normal \/ fact[i].done THEN "over" ELSE "doubt"]
      BY <1>5 DEF F!Exit
    <2>2. PICK f \in F!Snapshots : f = F!Outcome(fact[i], normal)
      BY <1>0 DEF F!Outcome, F!Snapshots
    <2>3. fact[i].state = "completed" => fact[i].done
      BY <1>0, <1>5 DEF F!Exit, ActInv
    <2>4. /\ f.state = IF normal \/ fact[i].done THEN "completed" ELSE "uncertain"
          /\ fact[i].state = "completed" => f = fact[i]
      BY <1>0, <2>2, <2>3 DEF F!Outcome, F!Snapshots
    <2>5. CASE normal \/ fact[i].done
      <3>1. Saves(i, f, "over") /\ f.state = "completed"
        BY <1>5, <2>1, <2>2, <2>4, <2>5 DEF F!Exit, Saves
      <3>2. QED
        BY <1>5, <2>4, <3>1, ShapeFacts DEF F!Exit, F!Saved
    <2>6. CASE ~(normal \/ fact[i].done)
      <3>1. Saves(i, f, "doubt") /\ f.state = "uncertain"
        BY <1>5, <2>1, <2>2, <2>4, <2>6 DEF F!Exit, Saves
      <3>2. QED
        BY <1>5, <2>4, <3>1, ShapeFacts DEF F!Exit, F!Saved
    <2>7. QED
      BY <2>5, <2>6
  <1>6. QED
    BY <1>1, <1>2, <1>3, <1>4, <1>5

LEMMA SavesKeep ==
  ASSUME FactInv, NEW i \in Incidents, NEW f \in F!Snapshots, NEW a \in {"opening", "body", "over", "doubt"},
         Saves(i, f, a),
         f.state # "none", fact[i].state = "completed" => f = fact[i],
         a = "opening" => f = F!Prepared,
         a = "body" /\ f.state = "completed" => f.done,
         a = "doubt" => f.state # "completed",
         early' \subseteq Incidents,
         Distinct
  PROVE  FactInv'
  <1>1. /\ F!TypeOK /\ (job[Report].pc # "none" => report.pc = "replay")
        /\ \A j \in Incidents : Kept(j) /\ ActInv(j)
        /\ \A o \in F!Owners : Carried(o)
    BY DEF FactInv
  <1>2. /\ fact' \in [Incidents -> F!Snapshots] /\ pending' \in [Incidents -> F!Snapshots]
        /\ job' \in [F!Owners -> [pc : {"none", "wait", "sql", "file"}, snap : F!Snapshots]]
        /\ fact'[i] = f /\ pending'[i] = f /\ job'[i] = [pc |-> "wait", snap |-> f]
        /\ \A j \in Incidents : j # i => fact'[j] = fact[j] /\ pending'[j] = pending[j]
        /\ \A o \in F!Owners : o # i => job'[o] = job[o]
    BY <1>1, SaveFacts DEF Saves
  <1>3. /\ act' = [act EXCEPT ![i] = a]
        /\ outbox' = outbox /\ corrupt' = corrupt /\ sql' = sql /\ report' = report /\ late' = late
    BY DEF Saves, F!diskVars
  <1>4. F!TypeOK'
    BY <1>1, <1>2, <1>3 DEF F!TypeOK
  <1>5. \A j \in Incidents : fact[j].state = "completed" => fact'[j] = fact[j]
    BY <1>2
  <1>6. ASSUME NEW j \in Incidents PROVE Kept(j)'
    <2>1. Kept(j)
      BY <1>1
    <2>2. Sound(j, pending[j])' /\ Sound(j, outbox[j])' /\ Sound(j, sql[j])' /\ Sound(j, report.todo[j])'
      BY <1>2, <1>3, <1>5, <2>1 DEF Kept, Sound
    <2>3. QED
      BY <2>2 DEF Kept
  <1>7. ASSUME NEW j \in Incidents PROVE ActInv(j)'
    <2>1. act'[i] = a /\ (j # i => act'[j] = act[j]) /\ ActInv(j)
      BY <1>1, <1>3 DEF F!TypeOK
    <2>2. CASE j = i
      BY <1>2, <2>1, <2>2 DEF ActInv
    <2>3. CASE j # i
      BY <1>2, <2>1, <2>3 DEF ActInv
    <2>4. QED
      BY <2>2, <2>3
  <1>8. ASSUME NEW o \in F!Owners PROVE Carried(o)'
    <2>1. F!Subject(o)' = F!Subject(o) /\ Carried(o)
      BY <1>1, <1>3 DEF F!Subject
    <2>2. CASE o = i
      <3>1. F!Subject(o) = i
        BY <2>2 DEF F!Subject, Distinct
      <3>2. job'[o].snap = f /\ f # F!None
        BY <1>2, <2>2, ShapeFacts
      <3>3. Sound(i, f)'
        BY <1>2, <3>2 DEF Sound
      <3>4. QED
        BY <2>1, <3>1, <3>2, <3>3 DEF Carried, Sound
    <2>3. CASE o # i
      BY <1>2, <1>5, <2>1, <2>3 DEF Carried, Sound
    <2>4. QED
      BY <2>2, <2>3
  <1>9. Report \in F!Owners /\ Report # i
    BY DEF Distinct, F!Owners
  <1>10. job'[Report].pc # "none" => report'.pc = "replay"
    BY <1>1, <1>2, <1>3, <1>9
  <1>11. QED
    BY <1>4, <1>6, <1>7, <1>8, <1>10 DEF FactInv

\* What a store in progress writes.
LEMMA StoreFacts ==
  ASSUME FactInv, NEW o \in F!Owners, job[o].pc \in {"wait", "sql"}
  PROVE  /\ F!Subject(o) \in Incidents
         /\ job[o].snap \in F!Snapshots /\ job[o].snap # F!None /\ Sound(F!Subject(o), job[o].snap)
         /\ o = Report => report.pc = "replay"
         /\ o # Report => o \in Incidents /\ F!Subject(o) = o
  BY DEF FactInv, F!TypeOK, Carried, F!Owners, F!Subject

LEMMA LockKeeps ==
  ASSUME FactInv, NEW o \in F!Owners, F!StoreLock(o)
  PROVE  FactInv'
  <1>1. PICK i \in Incidents : i = F!Subject(o)
    BY StoreFacts DEF F!StoreLock
  <1>2. PICK snap \in F!Snapshots : /\ snap = IF pending[i] # F!None THEN pending[i] ELSE job[o].snap
                                  /\ pending' = [pending EXCEPT ![i] = snap]
                                  /\ job' = [job EXCEPT ![o] = [pc |-> "sql", snap |-> snap]]
    BY <1>1, StoreFacts DEF F!StoreLock, FactInv, F!TypeOK
  <1>3. UNCHANGED <<fact, act, outbox, corrupt, sql, report, late, early>>
    BY DEF F!StoreLock, F!diskVars
  <1>4. /\ F!TypeOK /\ (job[Report].pc # "none" => report.pc = "replay")
        /\ \A j \in Incidents : Kept(j) /\ ActInv(j)
        /\ \A p \in F!Owners : Carried(p)
        /\ job[o].pc = "wait"
    BY DEF FactInv, F!StoreLock
  <1>5. snap # F!None /\ Sound(i, snap)
    <2>1. Sound(i, pending[i])
      BY <1>4 DEF Kept
    <2>2. Sound(i, job[o].snap) /\ job[o].snap # F!None
      BY <1>1, <1>4, StoreFacts
    <2>3. QED
      BY <1>2, <2>1, <2>2
  <1>6. F!TypeOK'
    BY <1>2, <1>3, <1>4 DEF F!TypeOK
  <1>7. \A j \in Incidents : Kept(j)' /\ ActInv(j)'
    <2>1. \A j \in Incidents : pending'[j] = IF j = i THEN snap ELSE pending[j]
      BY <1>2, <1>4 DEF F!TypeOK
    <2>2. QED
      BY <1>3, <1>4, <1>5, <2>1 DEF Kept, ActInv, Sound
  <1>8. ASSUME NEW p \in F!Owners PROVE Carried(p)'
    <2>1. /\ F!Subject(p)' = F!Subject(p) /\ Carried(p)
          /\ job'[p] = IF p = o THEN [pc |-> "sql", snap |-> snap] ELSE job[p]
      BY <1>2, <1>3, <1>4 DEF F!Subject, F!TypeOK
    <2>2. CASE p = o
      <3>1. job'[p].snap = snap
        BY <2>1, <2>2
      <3>2. QED
        BY <1>1, <1>3, <1>5, <2>1, <2>2, <3>1 DEF Carried, Sound
    <2>3. CASE p # o
      BY <1>3, <2>1, <2>3 DEF Carried, Sound
    <2>4. QED
      BY <2>2, <2>3
  <1>9. Report \in F!Owners /\ (o = Report => report.pc = "replay")
    BY <1>4, StoreFacts DEF F!Owners
  <1>10. job'[Report].pc # "none" => report'.pc = "replay"
    BY <1>2, <1>3, <1>4, <1>9 DEF F!TypeOK
  <1>11. QED
    BY <1>6, <1>7, <1>8, <1>10 DEF FactInv

\* The end of a store in SQL, whatever came of it.
LEMMA SqlKeeps ==
  ASSUME FactInv, NEW o \in F!Owners, F!StoreSql(o) \/ F!StoreSqlFails(o)
  PROVE  /\ FactInv'
         /\ \E i \in Incidents :
              /\ i = F!Subject(o)
              /\ sql' = sql \/ sql' = [sql EXCEPT ![i] = F!StoredRow(sql[i], job[o].snap)]
              /\ F!StoreSql(o) => sql' = [sql EXCEPT ![i] = F!StoredRow(sql[i], job[o].snap)]
              /\ F!StoredRow(sql[i], job[o].snap).state # "none"
              /\ \A j \in Incidents : pending'[j] # pending[j] => j = i /\ F!StoreSql(o)
  <1>0. job[o].pc = "sql" /\ job' = [job EXCEPT ![o] = [pc |-> "file", snap |-> F!None]]
    BY DEF F!StoreSql, F!StoreSqlFails
  <1>1. PICK i \in Incidents : i = F!Subject(o)
    BY <1>0, StoreFacts
  <1>2. /\ F!TypeOK /\ (job[Report].pc # "none" => report.pc = "replay")
        /\ \A j \in Incidents : Kept(j) /\ ActInv(j)
        /\ \A p \in F!Owners : Carried(p)
    BY DEF FactInv
  <1>3. PICK row \in F!Snapshots : row = F!StoredRow(sql[i], job[o].snap)
    BY <1>0, <1>2, StoreFacts DEF F!StoredRow, F!TypeOK
  <1>4. Sound(i, row) /\ row.state # "none"
    <2>1. Sound(i, sql[i])
      BY <1>2 DEF Kept
    <2>2. QED
      BY <1>0, <1>1, <1>3, <2>1, StoreFacts, StoredSound
  <1>5. /\ sql' = sql \/ sql' = [sql EXCEPT ![i] = row]
        /\ F!StoreSql(o) => sql' = [sql EXCEPT ![i] = row]
        /\ pending' = pending \/ (F!StoreSql(o) /\ pending' = [pending EXCEPT ![i] = F!None])
        /\ UNCHANGED <<fact, act, outbox, corrupt, report, late, early>>
    BY <1>1, <1>3 DEF F!StoreSql, F!StoreSqlFails
  <1>6. F!TypeOK'
    <2>1. sql' \in [Incidents -> F!Snapshots] /\ pending' \in [Incidents -> F!Snapshots]
      BY <1>2, <1>5, ShapeFacts DEF F!TypeOK
    <2>2. job' \in [F!Owners -> [pc : {"none", "wait", "sql", "file"}, snap : F!Snapshots]]
      BY <1>0, <1>2, ShapeFacts DEF F!TypeOK
    <2>3. QED
      BY <1>2, <1>5, <2>1, <2>2 DEF F!TypeOK
  <1>7. \A j \in Incidents : /\ pending'[j] = pending[j] \/ (j = i /\ F!StoreSql(o) /\ pending'[j] = F!None)
                             /\ sql'[j] = sql[j] \/ (j = i /\ sql'[j] = row)
    BY <1>2, <1>5 DEF F!TypeOK
  <1>8. \A j \in Incidents : Kept(j)' /\ ActInv(j)'
    BY <1>2, <1>4, <1>5, <1>7, ShapeFacts DEF Kept, ActInv, Sound
  <1>9. ASSUME NEW p \in F!Owners PROVE Carried(p)'
    <2>1. /\ F!Subject(p)' = F!Subject(p) /\ Carried(p)
          /\ job'[p] = IF p = o THEN [pc |-> "file", snap |-> F!None] ELSE job[p]
      BY <1>0, <1>2, <1>5 DEF F!Subject, F!TypeOK
    <2>2. QED
      BY <1>5, <2>1 DEF Carried, Sound
  <1>10. job'[Report].pc # "none" => report'.pc = "replay"
    <2>1. Report \in F!Owners
      BY DEF F!Owners
    <2>2. QED
      BY <1>0, <1>2, <1>5, <2>1 DEF F!TypeOK
  <1>11. FactInv'
    BY <1>6, <1>8, <1>9, <1>10 DEF FactInv
  <1>12. QED
    BY <1>1, <1>3, <1>4, <1>5, <1>7, <1>11

\* A step that changes no fact and takes each snapshot it keeps or carries from one that
\* was kept or carried, or drops it.
LEMMA QuietKeeps ==
  ASSUME FactInv, F!TypeOK', fact' = fact, sql' = sql,
         \A i \in Incidents : /\ pending'[i] \in {pending[i], outbox[i], F!None}
                              /\ outbox'[i] \in {pending[i], outbox[i]}
                              /\ report'.todo[i] \in {report.todo[i], pending[i], F!None}
                              /\ ActInv(i)',
         \A o \in F!Owners : job'[o].pc \in {"wait", "sql"} => job'[o] = job[o] /\ F!Subject(o)' = F!Subject(o),
         job'[Report].pc # "none" => report'.pc = "replay"
  PROVE  FactInv'
  <1>1. ASSUME NEW i \in Incidents PROVE Kept(i)'
    <2>1. /\ Sound(i, pending[i]) /\ Sound(i, outbox[i]) /\ Sound(i, sql[i]) /\ Sound(i, report.todo[i])
          /\ pending'[i] \in {pending[i], outbox[i], F!None} /\ outbox'[i] \in {pending[i], outbox[i]}
          /\ report'.todo[i] \in {report.todo[i], pending[i], F!None}
      BY DEF FactInv, Kept
    <2>2. Sound(i, pending[i])' /\ Sound(i, outbox[i])' /\ Sound(i, sql[i])' /\ Sound(i, report.todo[i])'
      BY <2>1, ShapeFacts DEF Sound
    <2>3. QED
      BY <2>2 DEF Kept
  <1>2. ASSUME NEW o \in F!Owners PROVE Carried(o)'
    <2>1. Carried(o)
      BY DEF FactInv
    <2>2. QED
      BY <2>1 DEF Carried, Sound
  <1>3. QED
    BY <1>1, <1>2 DEF FactInv

LEMMA FileKeeps ==
  ASSUME FactInv, NEW o \in F!Owners, F!StoreFile(o)
  PROVE  FactInv'
  <1>1. F!TypeOK /\ \A i \in Incidents : ActInv(i)
    BY DEF FactInv
  <1>2. /\ job' = [job EXCEPT ![o] = F!NoJob]
        /\ UNCHANGED <<fact, act, pending, corrupt, sql, report, late, early>>
        /\ outbox' = pending \/ outbox' = outbox
    BY DEF F!StoreFile
  <1>3. F!TypeOK'
    BY <1>1, <1>2, ShapeFacts DEF F!TypeOK
  <1>4. \A p \in F!Owners : /\ job'[p] = IF p = o THEN F!NoJob ELSE job[p]
                          /\ F!Subject(p)' = F!Subject(p)
    BY <1>1, <1>2 DEF F!TypeOK, F!Subject
  <1>5. \A i \in Incidents : ActInv(i)'
    BY <1>1, <1>2 DEF ActInv
  <1>6. job'[Report].pc # "none" => report'.pc = "replay"
    BY <1>2, <1>4, ShapeFacts DEF FactInv, F!Owners
  <1>7. QED
    BY <1>2, <1>3, <1>4, <1>5, <1>6, ShapeFacts, QuietKeeps

LEMMA EnterKeeps ==
  ASSUME FactInv, NEW i \in Incidents, F!Enter(i)
  PROVE  FactInv'
  <1>1. F!TypeOK /\ \A j \in Incidents : ActInv(j)
    BY DEF FactInv
  <1>2. /\ act[i] = "opening" /\ act' = [act EXCEPT ![i] = "body"]
        /\ UNCHANGED <<fact, pending, outbox, corrupt, sql, job, report, late, early>>
    BY DEF F!Enter, F!diskVars
  <1>3. F!TypeOK'
    BY <1>1, <1>2 DEF F!TypeOK
  <1>4. ASSUME NEW j \in Incidents PROVE ActInv(j)'
    <2>1. ActInv(j) /\ act'[j] = IF j = i THEN "body" ELSE act[j]
      BY <1>1, <1>2 DEF F!TypeOK
    <2>2. QED
      BY <1>2, <2>1, ShapeFacts DEF ActInv
  <1>5. QED
    BY <1>2, <1>3, <1>4, QuietKeeps DEF FactInv, F!Subject

LEMMA ReportingKeeps ==
  ASSUME FactInv, F!Reporting \/ F!EndOfDay
  PROVE  FactInv'
  <1>1. F!TypeOK /\ (\A i \in Incidents : ActInv(i)) /\ (job[Report].pc # "none" => report.pc = "replay")
    BY DEF FactInv
  <1>2. CASE F!EndOfDay
    <2>1. F!TypeOK'
      BY <1>1, <1>2 DEF F!EndOfDay, F!TypeOK, F!diskVars
    <2>2. \A i \in Incidents : ActInv(i)'
      BY <1>1, <1>2 DEF F!EndOfDay, ActInv
    <2>3. QED
      BY <1>1, <1>2, <2>1, <2>2, QuietKeeps DEF F!EndOfDay, F!Subject, F!diskVars
  <1>3. CASE F!ReadyBefore
    <2>1. report' = [F!ReportIdle EXCEPT !.pc = "replay", !.todo = pending] /\ job[Report].pc = "none"
      BY <1>1, <1>3 DEF F!ReadyBefore
    <2>2. /\ report' \in [pc : {"idle", "replay", "query", "ready"}, todo : [Incidents -> F!Snapshots], cur : F!Owners]
          /\ report'.todo = pending
      BY <1>1, <2>1, IdleReport DEF F!TypeOK
    <2>3. F!TypeOK'
      BY <1>1, <1>3, <2>2 DEF F!ReadyBefore, F!TypeOK, F!diskVars
    <2>4. \A i \in Incidents : ActInv(i)'
      BY <1>1, <1>3 DEF F!ReadyBefore, ActInv
    <2>5. \A o \in F!Owners : job'[o].pc \in {"wait", "sql"} => F!Subject(o)' = F!Subject(o)
      BY <1>3, <2>1 DEF F!ReadyBefore, F!Subject
    <2>6. QED
      BY <1>3, <2>1, <2>2, <2>3, <2>4, <2>5, QuietKeeps DEF F!ReadyBefore, F!diskVars
  <1>4. CASE F!Replayed \/ F!Query \/ F!QueryFails
    <2>1. job[Report].pc = "none"
      BY <1>1, <1>4 DEF F!Replayed, F!Query, F!QueryFails
    <2>2. PICK pc \in {"idle", "query", "ready"} : report' = [F!ReportIdle EXCEPT !.pc = pc] \/ report' = [report EXCEPT !.pc = pc]
      BY <1>4, IdleReport DEF F!Replayed, F!Query, F!QueryFails
    <2>3. /\ report' \in [pc : {"idle", "replay", "query", "ready"}, todo : [Incidents -> F!Snapshots], cur : F!Owners]
          /\ report'.todo = report.todo \/ report'.todo = F!Nothing
      BY <1>1, <2>2, IdleReport DEF F!TypeOK
    <2>4. UNCHANGED <<fact, act, pending, outbox, corrupt, sql, job, late, early>>
      BY <1>4 DEF F!Replayed, F!Query, F!QueryFails, F!diskVars
    <2>5. F!TypeOK'
      BY <1>1, <2>3, <2>4 DEF F!TypeOK
    <2>6. \A i \in Incidents : ActInv(i)'
      BY <1>1, <2>4 DEF ActInv
    <2>7. \A o \in F!Owners : job'[o].pc \in {"wait", "sql"} => F!Subject(o)' = F!Subject(o)
      BY <2>1, <2>4 DEF F!Subject
    <2>8. QED
      BY <2>1, <2>3, <2>4, <2>5, <2>6, <2>7, ShapeFacts, QuietKeeps
  <1>5. ASSUME NEW i \in Incidents, F!Replay(i) PROVE FactInv'
    <2>1. /\ report.pc = "replay" /\ job[Report].pc = "none" /\ report.todo[i] # F!None
          /\ report' = [report EXCEPT !.todo[i] = F!None, !.cur = i]
          /\ job' = [job EXCEPT ![Report] = [pc |-> "wait", snap |-> report.todo[i]]]
          /\ UNCHANGED <<fact, act, pending, outbox, corrupt, sql, late, early>>
      BY <1>5 DEF F!Replay, F!diskVars
    <2>2. /\ report' \in [pc : {"idle", "replay", "query", "ready"}, todo : [Incidents -> F!Snapshots], cur : F!Owners]
          /\ report'.pc = "replay" /\ report'.cur = i
          /\ \A j \in Incidents : report'.todo[j] \in {report.todo[j], F!None}
      BY <1>1, <2>1, ShapeFacts DEF F!TypeOK, F!Owners
    <2>3. job' \in [F!Owners -> [pc : {"none", "wait", "sql", "file"}, snap : F!Snapshots]]
      BY <1>1, <2>1 DEF F!TypeOK
    <2>4. F!TypeOK'
      BY <1>1, <2>1, <2>2, <2>3 DEF F!TypeOK
    <2>5. \A j \in Incidents : Kept(j)' /\ ActInv(j)'
      <3>1. TAKE j \in Incidents
      <3>2. Kept(j) /\ ActInv(j)
        BY DEF FactInv
      <3>3. report'.todo[j] = report.todo[j] \/ report'.todo[j] = F!None
        BY <2>2
      <3>4. Kept(j)'
        BY <2>1, <3>2, <3>3, ShapeFacts DEF Kept, Sound
      <3>5. ActInv(j)'
        BY <2>1, <3>2 DEF ActInv
      <3>6. QED
        BY <3>4, <3>5
    <2>6. ASSUME NEW o \in F!Owners PROVE Carried(o)'
      <3>1. CASE o = Report
        <4>1. F!Subject(o)' = i /\ job'[o].snap = report.todo[i]
          BY <1>1, <2>1, <2>2, <3>1 DEF F!Subject, F!TypeOK
        <4>2. Sound(i, report.todo[i])
          BY DEF FactInv, Kept
        <4>3. QED
          BY <2>1, <4>1, <4>2 DEF Carried, Sound
      <3>2. CASE o # Report
        <4>1. Carried(o) /\ job'[o] = job[o] /\ F!Subject(o)' = o /\ F!Subject(o) = o
          BY <1>1, <2>1, <3>2 DEF FactInv, F!Subject, F!TypeOK
        <4>2. QED
          BY <2>1, <4>1 DEF Carried, Sound
      <3>3. QED
        BY <3>1, <3>2
    <2>7. QED
      BY <2>2, <2>4, <2>5, <2>6 DEF FactInv
  <1>6. QED
    BY <1>2, <1>3, <1>4, <1>5 DEF F!Reporting

\* A crash forgets the stores in progress, and takes nothing into the next process that was
\* not in the outbox.
LEMMA CrashKeeps ==
  ASSUME FactInv, F!Crash
  PROVE  FactInv'
  <1>1. F!TypeOK /\ \A i \in Incidents : ActInv(i)
    BY DEF FactInv
  <1>2. /\ corrupt' \in BOOLEAN
        /\ pending' = F!Nothing \/ pending' = outbox
        /\ job' = [o \in F!Owners |-> F!NoJob] /\ report' = F!ReportIdle
        /\ UNCHANGED <<fact, outbox, sql, late, early>>
    BY <1>1 DEF F!Crash, F!TypeOK
  <1>3. \A i \in Incidents : act'[i] = CASE act[i] = "opening" -> "dropped"
                                        [] act[i] = "body" /\ ~fact[i].done -> "doubt"
                                        [] act[i] = "body" /\ fact[i].done -> "over"
                                        [] OTHER -> act[i]
    BY DEF F!Crash
  <1>4. act' \in [Incidents -> {"new", "opening", "dropped", "body", "over", "doubt"}]
    <2>1. \A i \in Incidents : act[i] \in {"new", "opening", "dropped", "body", "over", "doubt"}
      BY <1>1 DEF F!TypeOK
    <2>2. \A i \in Incidents : act'[i] \in {"new", "opening", "dropped", "body", "over", "doubt"}
      BY <1>3, <2>1
    <2>3. act' = [i \in Incidents |-> act'[i]]
      BY DEF F!Crash
    <2>4. QED
      BY <2>2, <2>3
  <1>5. F!TypeOK'
    BY <1>1, <1>2, <1>4, ShapeFacts, IdleReport DEF F!TypeOK
  <1>6. ASSUME NEW i \in Incidents PROVE ActInv(i)'
    <2>1. ActInv(i)
      BY <1>1
    <2>2. act'[i] \in {"new", "opening", "body"} => act'[i] = "new" /\ act[i] = "new"
      BY <1>3, <1>1 DEF F!TypeOK
    <2>3. act'[i] = "doubt" => act[i] = "doubt" \/ (act[i] = "body" /\ ~fact[i].done)
      BY <1>3
    <2>4. QED
      BY <1>2, <2>1, <2>2, <2>3 DEF ActInv
  <1>7. QED
    BY <1>2, <1>5, <1>6, ShapeFacts, IdleReport, QuietKeeps DEF F!Owners

LEMMA FactStart == F!Init => FactInv
  <1> SUFFICES ASSUME F!Init PROVE FactInv
    OBVIOUS
  <1>1. F!TypeOK
    BY ShapeFacts, IdleReport DEF F!Init, F!TypeOK
  <1>2. \A i \in Incidents : Kept(i) /\ ActInv(i)
    BY ShapeFacts, IdleReport DEF F!Init, Kept, ActInv, Sound
  <1>3. (\A o \in F!Owners : Carried(o)) /\ job[Report].pc = "none"
    BY ShapeFacts DEF F!Init, Carried, F!Owners
  <1>4. QED
    BY <1>1, <1>2, <1>3 DEF FactInv

LEMMA FactStep == ASSUME Distinct, FactInv, [F!Next]_(F!vars) PROVE FactInv'
  <1>1. ASSUME NEW o \in F!Owners, F!Store(o) PROVE FactInv'
    BY <1>1, LockKeeps, SqlKeeps, FileKeeps DEF F!Store
  <1>2. ASSUME NEW i \in Incidents, F!Open(i) \/ F!Action(i) PROVE FactInv'
    <2>1. CASE F!Enter(i)
      BY <2>1, EnterKeeps
    <2>2. CASE F!Open(i) \/ F!OpenCancelled(i) \/ F!MarkPartial(i) \/ F!MarkDisabled(i) \/ F!Exit(i)
      <3>1. PICK f \in F!Snapshots, a \in {"opening", "body", "over", "doubt"} :
               /\ Saves(i, f, a) /\ f.state # "none"
               /\ fact[i].state = "completed" => f = fact[i]
               /\ a = "opening" => f = F!Prepared
               /\ a = "body" /\ f.state = "completed" => f.done
               /\ a = "doubt" => f.state # "completed"
               /\ early' = IF act[i] = "new" /\ ~late THEN early \cup {i} ELSE early
        BY <2>2, ActionSaves
      <3>2. early' \subseteq Incidents
        BY <3>1 DEF FactInv, F!TypeOK
      <3>3. QED
        BY <3>1, <3>2, SavesKeep
    <2>3. QED
      BY <1>2, <2>1, <2>2 DEF F!Action
  <1>3. CASE F!Reporting \/ F!EndOfDay
    BY <1>3, ReportingKeeps
  <1>4. CASE F!Crash
    BY <1>4, CrashKeeps
  <1>5. CASE UNCHANGED F!vars
    <2>1. UNCHANGED <<fact, act, pending, outbox, corrupt, sql, job, report, late, early>>
      BY <1>5 DEF F!vars, F!diskVars
    <2>2. F!TypeOK'
      BY <2>1 DEF FactInv, F!TypeOK
    <2>3. \A i \in Incidents : ActInv(i)'
      BY <2>1 DEF FactInv, ActInv
    <2>4. QED
      BY <2>1, <2>2, <2>3, QuietKeeps DEF FactInv, F!Subject
  <1>6. CASE F!Reported
    BY <1>5, <1>6 DEF F!Reported
  <1>7. QED
    BY <1>1, <1>2, <1>3, <1>4, <1>5, <1>6 DEF F!Next

LEMMA FactInvariant == ASSUME Distinct PROVE F!Spec => []FactInv
  <1>1. FactInv /\ [F!Next]_(F!vars) => FactInv'
    BY FactStep
  <1>2. QED
    BY <1>1, FactStart, PTL DEF F!Spec

\* The state of the journal is well typed.
THEOREM FactsTypeCorrect == ASSUME Distinct PROVE F!Spec => []F!TypeOK
  <1>1. FactInv => F!TypeOK
    BY DEF FactInv
  <1>2. QED
    BY <1>1, FactInvariant, PTL

\* What is in doubt is never settled, whatever fails: a completed row in SQL repeats the
\* final fact of its action, and an action in doubt has none.
THEOREM NothingIsInvented == ASSUME Distinct PROVE F!Spec => []F!NothingInvented
  <1>1. FactInv => F!NothingInvented
    <2> SUFFICES ASSUME FactInv, NEW i \in Incidents, act[i] = "doubt" PROVE sql[i].state # "completed"
      BY DEF F!NothingInvented
    <2>1. Sound(i, sql[i]) /\ ActInv(i)
      BY DEF FactInv, Kept
    <2>2. QED
      BY <2>1 DEF Sound, ActInv
  <1>2. QED
    BY <1>1, FactInvariant, PTL

-----------------------------------------------------------------------------
(* The report.                                                             *)

LEMMA FoundStays ==
  ASSUME NEW i \in Incidents, Found(i), act'[i] # "new",
         act[i] = "dropped" => act'[i] = "dropped",
         InSql(i) => InSql(i)',
         sql[i].state = "completed" => sql'[i].state = "completed",
         report'.pc \in {report.pc, "idle", "replay"}
  PROVE  Found(i)'
  BY DEF Found

\* A save announces the action, and leaves what is durable as it was.
LEMMA SavesReport ==
  ASSUME Distinct, FactInv, ReportInv, NEW i \in Incidents,
         F!Open(i) \/ F!OpenCancelled(i) \/ F!MarkPartial(i) \/ F!MarkDisabled(i) \/ F!Exit(i)
  PROVE  ReportInv'
  <1>1. PICK f \in F!Snapshots, a \in {"opening", "body", "over", "doubt"} :
           /\ Saves(i, f, a)
           /\ f # F!None
           /\ a = "opening" <=> act[i] = "new"
           /\ early' = IF act[i] = "new" /\ ~late THEN early \cup {i} ELSE early
           /\ act[i] = "new" \/ job[i].pc = "none"
           /\ act[i] \in {"new", "opening", "body"}
    BY ActionSaves
  <1>2. F!TypeOK
    BY DEF FactInv
  <1>3. /\ pending'[i] = f /\ job'[i].pc = "wait"
        /\ \A j \in Incidents : j # i => pending'[j] = pending[j] /\ job'[j] = job[j]
    <2>1. F!Save(i, f)
      BY <1>1 DEF Saves
    <2>2. /\ pending'[i] = f /\ job'[i] = [pc |-> "wait", snap |-> f]
          /\ \A j \in Incidents : j # i => pending'[j] = pending[j]
          /\ \A o \in F!Owners : o # i => job'[o] = job[o]
      BY <1>2, <2>1, SaveFacts
    <2>3. QED
      BY <2>2 DEF F!Owners
  <1>4. /\ \A j \in Incidents : act'[j] = IF j = i THEN a ELSE act[j]
        /\ outbox' = outbox /\ corrupt' = corrupt /\ sql' = sql /\ report' = report /\ late' = late
    BY <1>1, <1>2 DEF Saves, F!diskVars, F!TypeOK
  <1>5. ASSUME NEW j \in Incidents, ~corrupt' PROVE Announced(j)' /\ Durable(j)'
    <2>1. Announced(j) /\ Durable(j)
      BY <1>4, <1>5 DEF ReportInv
    <2>2. CASE j = i
      BY <1>1, <1>3, <1>4, <2>1, <2>2 DEF Announced, Durable, InSql
    <2>3. CASE j # i
      BY <1>3, <1>4, <2>1, <2>3 DEF Announced, Durable, InSql
    <2>4. QED
      BY <2>2, <2>3
  <1>6. ASSUME NEW j \in early' PROVE Found(j)'
    <2>1. CASE j \in early
      <3>1. Found(j) /\ j \in Incidents
        BY <1>2, <2>1 DEF ReportInv, F!TypeOK
      <3>2. act'[j] # "new" /\ (act[j] = "dropped" => act'[j] = "dropped")
        BY <1>1, <1>4, <3>1 DEF Found
      <3>3. QED
        BY <1>4, <3>1, <3>2, FoundStays DEF InSql
    <2>2. CASE j \notin early
      <3>1. j = i /\ ~late /\ act[i] = "new"
        BY <1>1, <1>6, <2>2
      <3>2. report'.pc = "idle" /\ act'[i] = a /\ a # "new"
        BY <1>4, <3>1 DEF ReportInv
      <3>3. QED
        BY <3>1, <3>2 DEF Found
    <2>3. QED
      BY <2>1, <2>2
  <1>7. QED
    BY <1>4, <1>5, <1>6 DEF ReportInv

\* A step that leaves the report and the actions where they are, and loses no row.
LEMMA QuietReport ==
  ASSUME F!TypeOK, ReportInv, act' = act, early' = early, late' = late, corrupt' = corrupt,
         report'.pc \in {report.pc, "idle"},
         \A i \in Incidents : /\ InSql(i) => InSql(i)'
                              /\ sql[i].state = "completed" => sql'[i].state = "completed"
                              /\ ~corrupt => Announced(i)' /\ Durable(i)'
  PROVE  ReportInv'
  <1>1. ASSUME NEW i \in early PROVE Found(i)'
    <2>1. i \in Incidents /\ Found(i)
      BY DEF F!TypeOK, ReportInv
    <2>2. QED
      BY <2>1, FoundStays DEF Found
  <1>2. QED
    BY <1>1 DEF ReportInv

LEMMA StoreReport ==
  ASSUME Distinct, Recoverable, FactInv, ReportInv, NEW o \in F!Owners, F!Store(o)
  PROVE  ReportInv'
  <1>1. F!TypeOK
    BY DEF FactInv
  <1>2. CASE F!StoreLock(o)
    <2>1. PICK i \in Incidents : i = F!Subject(o)
      BY <1>2, StoreFacts DEF F!StoreLock
    <2>2. PICK snap \in F!Snapshots : /\ snap # F!None
                                    /\ pending' = [pending EXCEPT ![i] = snap]
                                    /\ job' = [job EXCEPT ![o] = [pc |-> "sql", snap |-> snap]]
      BY <1>1, <1>2, <2>1, StoreFacts DEF F!StoreLock, F!TypeOK
    <2>3. UNCHANGED <<act, outbox, corrupt, sql, report, late, early>>
      BY <1>2 DEF F!StoreLock, F!diskVars
    <2>4. ASSUME NEW j \in Incidents, ~corrupt PROVE Announced(j)' /\ Durable(j)'
      <3>1. Announced(j) /\ Durable(j)
        BY <2>4 DEF ReportInv
      <3>2. pending'[j] = pending[j] \/ pending'[j] # F!None
        BY <1>1, <2>2 DEF F!TypeOK
      <3>3. job'[j] = job[j] \/ job'[j].pc = "sql"
        BY <1>1, <2>2 DEF F!TypeOK, F!Owners
      <3>4. QED
        BY <2>3, <3>1, <3>2, <3>3 DEF Announced, Durable, InSql
    <2>5. QED
      BY <1>1, <2>3, <2>4, QuietReport DEF InSql
  <1>3. CASE F!StoreSql(o) \/ F!StoreSqlFails(o)
    <2>1. PICK i \in Incidents :
            /\ i = F!Subject(o)
            /\ sql' = sql \/ sql' = [sql EXCEPT ![i] = F!StoredRow(sql[i], job[o].snap)]
            /\ F!StoreSql(o) => sql' = [sql EXCEPT ![i] = F!StoredRow(sql[i], job[o].snap)]
            /\ F!StoredRow(sql[i], job[o].snap).state # "none"
            /\ \A j \in Incidents : pending'[j] # pending[j] => j = i /\ F!StoreSql(o)
      BY <1>3, SqlKeeps
    <2>2. /\ UNCHANGED <<act, outbox, corrupt, report, late, early>>
          /\ job' = [job EXCEPT ![o] = [pc |-> "file", snap |-> F!None]]
          /\ F!StoreSql(o) \/ F!May("database") \/ sql[i].state = "completed"
      BY <1>3, <2>1 DEF F!StoreSql, F!StoreSqlFails, F!Conflicts
    <2>3. ASSUME NEW j \in Incidents
          PROVE  (InSql(j) => InSql(j)') /\ (sql[j].state = "completed" => sql'[j].state = "completed")
      <3>1. sql'[j] = sql[j] \/ (j = i /\ sql'[j] = F!StoredRow(sql[i], job[o].snap))
        BY <1>1, <2>1 DEF F!TypeOK
      <3>2. QED
        BY <2>1, <3>1 DEF InSql, F!StoredRow
    <2>4. ASSUME NEW j \in Incidents, ~corrupt PROVE Announced(j)' /\ Durable(j)'
      <3>1. Announced(j) /\ Durable(j) /\ (InSql(j) => InSql(j)')
        BY <2>3, <2>4 DEF ReportInv
      <3>2. pending'[j] = pending[j] \/ InSql(j)'
        BY <1>1, <2>1 DEF InSql, F!TypeOK
      <3>3. Announced(j)'
        BY <2>2, <3>1, <3>2 DEF Announced
      <3>4. CASE o = j
        <4>1. i = j
          BY <2>1, <3>4 DEF F!Subject, Distinct
        <4>2. InSql(j)' \/ F!May("database")
          BY <1>1, <2>1, <2>2, <3>1, <4>1 DEF InSql, F!TypeOK
        <4>3. job'[j].pc = "file"
          BY <1>1, <2>2, <3>4 DEF F!TypeOK
        <4>4. QED
          BY <2>2, <3>1, <3>3, <4>2, <4>3 DEF Durable
      <3>5. CASE o # j
        <4>1. job'[j] = job[j]
          BY <1>1, <2>2, <3>5 DEF F!TypeOK, F!Owners
        <4>2. QED
          BY <2>2, <3>1, <3>3, <4>1 DEF Durable
      <3>6. QED
        BY <3>4, <3>5
    <2>5. QED
      BY <1>1, <2>2, <2>3, <2>4, QuietReport
  <1>4. CASE F!StoreFile(o)
    <2>1. /\ UNCHANGED <<act, pending, corrupt, sql, report, late, early>>
          /\ job[o].pc = "file" /\ job' = [job EXCEPT ![o] = F!NoJob]
          /\ \/ ~corrupt /\ outbox' = pending
             \/ (corrupt \/ F!May("outbox")) /\ outbox' = outbox
      BY <1>4 DEF F!StoreFile
    <2>2. ASSUME NEW j \in Incidents, ~corrupt PROVE Announced(j)' /\ Durable(j)'
      <3>1. Announced(j) /\ Durable(j)
        BY <2>2 DEF ReportInv
      <3>2. Announced(j)'
        BY <2>1, <3>1 DEF Announced, InSql
      <3>3. job'[j].pc # "file" \/ job'[j] = job[j]
        BY <1>1, <2>1, ShapeFacts DEF F!TypeOK, F!Owners
      <3>4. ASSUME act[j] = "opening" \/ act[j] \in {"body", "over", "doubt"},
                   ~(act[j] = "opening" /\ job'[j].pc # "none")
            PROVE  InSql(j) \/ (F!May("database") /\ outbox'[j] # F!None) \/ ~F!May("crash")
        <4>1. CASE o = j /\ act[j] = "opening"
          <5>1. InSql(j) \/ F!May("database")
            BY <2>1, <3>1, <4>1 DEF Durable
          <5>2. CASE ~corrupt /\ outbox' = pending
            BY <3>1, <4>1, <5>1, <5>2 DEF Announced
          <5>3. CASE (corrupt \/ F!May("outbox")) /\ outbox' = outbox
            BY <2>2, <5>1, <5>3 DEF Recoverable, F!May
          <5>4. QED
            BY <2>1, <5>2, <5>3
        <4>2. CASE ~(o = j /\ act[j] = "opening")
          <5>1. act[j] = "opening" => job[j].pc = "none"
            BY <1>1, <2>1, <3>4, <4>2 DEF F!TypeOK, F!Owners
          <5>2. InSql(j) \/ (F!May("database") /\ outbox[j] # F!None) \/ ~F!May("crash")
            BY <3>1, <3>4, <5>1 DEF Durable
          <5>3. CASE outbox' = pending
            BY <3>1, <3>4, <5>2, <5>3 DEF Announced
          <5>4. CASE outbox' = outbox
            BY <5>2, <5>4
          <5>5. QED
            BY <2>1, <5>3, <5>4
        <4>3. QED
          BY <4>1, <4>2
      <3>5. Durable(j)'
        BY <2>1, <3>1, <3>3, <3>4 DEF Durable, InSql
      <3>6. QED
        BY <3>2, <3>5
    <2>3. QED
      BY <1>1, <2>1, <2>2, QuietReport DEF InSql
  <1>5. QED
    BY <1>2, <1>3, <1>4 DEF F!Store

LEMMA EnterReport ==
  ASSUME FactInv, ReportInv, NEW i \in Incidents, F!Enter(i)
  PROVE  ReportInv'
  <1>1. F!TypeOK
    BY DEF FactInv
  <1>2. /\ act[i] = "opening" /\ job[i].pc = "none"
        /\ \A j \in Incidents : act'[j] = IF j = i THEN "body" ELSE act[j]
        /\ UNCHANGED <<pending, outbox, corrupt, sql, job, report, late, early>>
    BY <1>1 DEF F!Enter, F!Saved, F!TypeOK, F!diskVars
  <1>3. ASSUME NEW j \in Incidents, ~corrupt PROVE Announced(j)' /\ Durable(j)'
    <2>1. Announced(j) /\ Durable(j)
      BY <1>3 DEF ReportInv
    <2>2. Announced(j)'
      BY <1>2, <2>1 DEF Announced, InSql
    <2>3. Durable(j)'
      BY <1>2, <2>1 DEF Durable, InSql
    <2>4. QED
      BY <2>2, <2>3
  <1>4. ASSUME NEW j \in early PROVE Found(j)'
    <2>1. j \in Incidents /\ Found(j)
      BY <1>1, <1>4 DEF F!TypeOK, ReportInv
    <2>2. act'[j] # "new" /\ (act[j] = "dropped" => act'[j] = "dropped")
      BY <1>2, <2>1 DEF Found
    <2>3. QED
      BY <1>2, <2>1, <2>2, FoundStays DEF InSql
  <1>5. QED
    BY <1>2, <1>3, <1>4 DEF ReportInv

\* The report goes on to its query once the early actions are in the table, and is ready
\* once their rows are final.
LEMMA ReportingReport ==
  ASSUME Distinct, FactInv, ReportInv, F!Reporting \/ F!EndOfDay
  PROVE  ReportInv'
  <1>1. F!TypeOK
    BY DEF FactInv
  <1>2. /\ UNCHANGED <<act, pending, outbox, corrupt, sql, early>>
        /\ late => late'
        /\ \A i \in Incidents : job'[i] = job[i]
    <2>1. CASE F!EndOfDay
      BY <2>1 DEF F!EndOfDay, F!diskVars
    <2>2. CASE F!ReadyBefore \/ F!Replayed \/ F!Query \/ F!QueryFails
      BY <2>2 DEF F!ReadyBefore, F!Replayed, F!Query, F!QueryFails, F!diskVars
    <2>3. ASSUME NEW j \in Incidents, F!Replay(j)
          PROVE  /\ UNCHANGED <<act, pending, outbox, corrupt, sql, late, early>>
                 /\ \A i \in Incidents : job'[i] = job[i]
      BY <1>1, <2>3 DEF F!Replay, F!diskVars, F!TypeOK, Distinct, F!Owners
    <2>4. QED
      BY <2>1, <2>2, <2>3 DEF F!Reporting
  <1>3. ASSUME NEW i \in Incidents, F!Replay(i) PROVE report'.pc = "replay" /\ job[Report].pc = "none"
    BY <1>1, <1>3 DEF F!Replay, F!TypeOK
  <1>4. report'.pc # "idle" => late' /\ ~corrupt'
    <2>1. CASE F!ReadyBefore
      BY <2>1, <1>2 DEF F!ReadyBefore
    <2>2. CASE F!EndOfDay
      BY <2>2 DEF F!EndOfDay, ReportInv
    <2>3. CASE F!Replayed \/ F!Query
      BY <1>2, <2>3 DEF F!Replayed, F!Query, ReportInv
    <2>4. CASE F!QueryFails
      BY <2>4, IdleReport DEF F!QueryFails
    <2>5. ASSUME NEW i \in Incidents, F!Replay(i) PROVE late' /\ ~corrupt'
      BY <1>2, <2>5 DEF F!Replay, ReportInv
    <2>6. QED
      BY <2>1, <2>2, <2>3, <2>4, <2>5 DEF F!Reporting
  <1>5. ASSUME NEW i \in Incidents, ~corrupt PROVE Announced(i)' /\ Durable(i)'
    <2>1. Announced(i) /\ Durable(i)
      BY <1>5 DEF ReportInv
    <2>2. Announced(i)'
      BY <1>2, <2>1 DEF Announced, InSql
    <2>3. Durable(i)'
      BY <1>2, <2>1 DEF Durable, InSql
    <2>4. QED
      BY <2>2, <2>3
  <1>6. ASSUME NEW i \in early PROVE Found(i)'
    <2>1. i \in Incidents /\ Found(i)
      BY <1>1, <1>6 DEF F!TypeOK, ReportInv
    <2>2. CASE report'.pc \in {report.pc, "idle", "replay"}
      BY <1>2, <2>1, <2>2, FoundStays DEF InSql, Found
    <2>3. CASE F!Replayed /\ report'.pc = "query"
      <3>1. pending[i] = F!None /\ ~corrupt
        BY <1>1, <1>6, <2>3, IdleReport DEF F!Replayed, ReportInv
      <3>2. InSql(i) \/ act[i] \in {"new", "dropped"}
        BY <1>1, <2>1, <3>1 DEF ReportInv, Announced, F!TypeOK
      <3>3. QED
        BY <1>2, <2>1, <2>3, <3>2 DEF Found, InSql
    <2>4. CASE F!Query /\ report'.pc = "ready"
      <3>1. F!Unresolved = {} /\ report.pc = "query"
        BY <1>1, <2>4 DEF F!Query, F!TypeOK
      <3>2. sql[i].state \notin {"prepared", "uncertain"}
        BY <1>6, <3>1 DEF F!Unresolved
      <3>3. sql[i].state \in {"none", "prepared", "completed", "uncertain"}
        BY <1>1, <2>1 DEF F!TypeOK, F!Snapshots
      <3>4. act[i] = "dropped" \/ sql[i].state = "completed"
        BY <2>1, <3>1, <3>2, <3>3 DEF Found, InSql
      <3>5. QED
        BY <1>2, <2>1, <3>4 DEF Found, InSql
    <2>5. QED
      <3>1. CASE F!ReadyBefore
        BY <2>2, <3>1, IdleReport DEF F!ReadyBefore
      <3>2. CASE F!EndOfDay
        BY <2>2, <3>2 DEF F!EndOfDay
      <3>3. CASE F!Replayed
        BY <2>2, <2>3, <3>3, IdleReport DEF F!Replayed
      <3>4. CASE F!Query
        BY <1>1, <2>2, <2>4, <3>4 DEF F!Query, F!TypeOK
      <3>5. CASE F!QueryFails
        BY <2>2, <3>5, IdleReport DEF F!QueryFails
      <3>6. CASE \E j \in Incidents : F!Replay(j)
        BY <1>3, <2>2, <3>6
      <3>7. QED
        BY <3>1, <3>2, <3>3, <3>4, <3>5, <3>6 DEF F!Reporting
  <1>7. QED
    BY <1>2, <1>4, <1>5, <1>6 DEF ReportInv

\* What was durable survives a crash.
LEMMA CrashReport ==
  ASSUME FactInv, ReportInv, F!Crash
  PROVE  ReportInv'
  <1>1. F!TypeOK
    BY DEF FactInv
  <1>2. /\ ~corrupt' => ~corrupt /\ pending' = outbox
        /\ report' = F!ReportIdle /\ F!May("crash")
        /\ UNCHANGED <<outbox, sql, late, early>>
    <2>1. PICK unreadable \in {corrupt} \cup (IF F!May("corrupt") THEN {TRUE} ELSE {}) :
             corrupt' = unreadable /\ pending' = IF unreadable THEN F!Nothing ELSE outbox
      BY DEF F!Crash
    <2>2. unreadable = corrupt \/ unreadable = TRUE
      BY <2>1
    <2>3. ~corrupt' => ~corrupt /\ ~unreadable
      BY <2>1, <2>2
    <2>4. ~corrupt' => ~corrupt /\ pending' = outbox
      BY <2>1, <2>3
    <2>5. QED
      BY <2>4 DEF F!Crash
  <1>3. \A i \in Incidents :
          /\ act'[i] # "opening" /\ (act[i] # "new" => act'[i] # "new")
          /\ act'[i] \in {"body", "over", "doubt"} => act[i] \in {"body", "over", "doubt"}
    <2>1. ASSUME NEW i \in Incidents
          PROVE  act'[i] = CASE act[i] = "opening" -> "dropped"
                             [] act[i] = "body" /\ ~fact[i].done -> "doubt"
                             [] act[i] = "body" /\ fact[i].done -> "over"
                             [] OTHER -> act[i]
      BY DEF F!Crash
    <2>2. ASSUME NEW i \in Incidents
          PROVE  act[i] \in {"new", "opening", "dropped", "body", "over", "doubt"}
      BY <1>1 DEF F!TypeOK
    <2>3. QED
      BY <2>1, <2>2
  <1>4. ASSUME NEW i \in Incidents, ~corrupt' PROVE Announced(i)' /\ Durable(i)'
    <2>1. Durable(i) /\ F!May("crash") /\ pending' = outbox
      BY <1>2, <1>4 DEF ReportInv
    <2>2. act'[i] \in {"body", "over", "doubt"} => InSql(i) \/ (F!May("database") /\ outbox[i] # F!None)
      BY <1>3, <2>1 DEF Durable
    <2>3. InSql(i)' <=> InSql(i)
      BY <1>2 DEF InSql
    <2>4. Announced(i)'
      BY <1>2, <1>3, <2>1, <2>2, <2>3 DEF Announced
    <2>5. Durable(i)'
      BY <1>2, <1>3, <2>2, <2>3 DEF Durable
    <2>6. QED
      BY <2>4, <2>5
  <1>5. ASSUME NEW i \in early PROVE Found(i)'
    <2>1. i \in Incidents /\ act[i] # "new"
      BY <1>1, <1>5 DEF F!TypeOK, ReportInv, Found
    <2>2. QED
      BY <1>2, <1>3, <2>1, IdleReport DEF Found
  <1>6. QED
    BY <1>2, <1>4, <1>5, IdleReport DEF ReportInv

LEMMA ReportStart == F!Init => ReportInv
  <1> SUFFICES ASSUME F!Init PROVE ReportInv
    OBVIOUS
  <1>1. \A i \in Incidents : act[i] = "new"
    BY DEF F!Init
  <1>2. report.pc = "idle" /\ early = {}
    BY IdleReport DEF F!Init
  <1>3. \A i \in Incidents : Announced(i) /\ Durable(i)
    BY <1>1 DEF Announced, Durable
  <1>4. QED
    BY <1>2, <1>3 DEF ReportInv

LEMMA ReportStep ==
  ASSUME Distinct, Recoverable, FactInv, ReportInv, [F!Next]_(F!vars)
  PROVE  ReportInv'
  <1>1. ASSUME NEW o \in F!Owners, F!Store(o) PROVE ReportInv'
    BY <1>1, StoreReport
  <1>2. ASSUME NEW i \in Incidents, F!Open(i) \/ F!Action(i) PROVE ReportInv'
    BY <1>2, SavesReport, EnterReport DEF F!Action
  <1>3. CASE F!Reporting \/ F!EndOfDay
    BY <1>3, ReportingReport
  <1>4. CASE F!Crash
    BY <1>4, CrashReport
  <1>5. CASE UNCHANGED F!vars
    <2>1. UNCHANGED <<act, pending, outbox, corrupt, sql, job, report, late, early>>
      BY <1>5 DEF F!vars, F!diskVars
    <2>2. \A i \in Incidents : ~corrupt => Announced(i)' /\ Durable(i)'
      BY <2>1 DEF ReportInv, Announced, Durable, InSql
    <2>3. F!TypeOK
      BY DEF FactInv
    <2>4. QED
      BY <2>1, <2>2, <2>3, QuietReport DEF InSql
  <1>6. CASE F!Reported
    BY <1>5, <1>6 DEF F!Reported
  <1>7. QED
    BY <1>1, <1>2, <1>3, <1>4, <1>5, <1>6 DEF F!Next

\* A report that is made rests on complete evidence, and nothing in doubt has been settled.
THEOREM ReportIsComplete ==
  ASSUME Distinct, Recoverable
  PROVE  F!Spec => []FactsSound
  <1>1. FactInv /\ ReportInv /\ [F!Next]_(F!vars) => FactInv' /\ ReportInv'
    BY FactStep, ReportStep
  <1>2. FactInv /\ ReportInv => F!ReportComplete
    <2> SUFFICES ASSUME FactInv, ReportInv, report.pc = "ready",
                        NEW i \in early, act[i] \in {"body", "over", "doubt"}
                 PROVE  sql[i].state = "completed" /\ sql[i] = fact[i]
      BY DEF F!ReportComplete
    <2>1. i \in Incidents /\ Found(i)
      BY DEF FactInv, F!TypeOK, ReportInv
    <2>2. sql[i].state = "completed"
      BY <2>1 DEF Found
    <2>3. Sound(i, sql[i])
      BY <2>1 DEF FactInv, Kept
    <2>4. QED
      BY <2>2, <2>3 DEF Sound
  <1>3. F!Spec => [](FactInv /\ ReportInv)
    BY <1>1, FactStart, ReportStart, PTL DEF F!Spec
  <1>4. QED
    BY <1>2, <1>3, FactsTypeCorrect, NothingIsInvented, PTL DEF FactsSound, F!FactsSound
==============================================================================
