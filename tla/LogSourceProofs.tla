--------------------------- MODULE LogSourceProofs ---------------------------
(***************************************************************************)
(* A warning is taken back for absence only if nothing was lost, for any   *)
(* nodes and tasks, any interval and any disturbances.                     *)
(*                                                                         *)
(* Whenever a record of a node was lost a ticks ago, or is in preparation  *)
(* since and will not be stored, something the samples are judged by says  *)
(* so for at least as long as a is within the interval (Doubt): the        *)
(* heartbeat, an interval that began since, a node or a fleet that is not  *)
(* trusted.  No step takes the doubt away before the loss is too old to    *)
(* matter, and a sample is complete only without any.                      *)
(***************************************************************************)
EXTENDS LogSource, TLAPS

\* What the panel says of a node, and what is remembered of what it said.
Statuses == {"connected", "error", "disabled", "none"}
SettingsTaken == [src : {"logs", "api", "none"}, off : SUBSET Nodes]

Accounts ==
  [set : SettingsTaken, list : [Nodes -> Statuses], excl : SUBSET Nodes, seen : Nat, floor : Nat, fleet : Nat,
   node : [Nodes -> Nat], state : SUBSET Nodes, unsure : [Nodes -> 0 .. Window], all : 0 .. Window]

Records ==
  {r \in [st : {"none", "dated", "undated", "overtaken"}, age : Nat, good : BOOLEAN] : r.st = "none" => r = NoRecord}

FrameType ==
  /\ panel \in [Nodes -> Statuses]
  /\ set \in SettingsTaken
  /\ task \in [Nodes -> [Slots -> {"none", "idle", "open", "deaf"}]]
  /\ beat \in [Nodes -> Nat]
  /\ prep \in [Nodes -> [Slots -> Records]]
  /\ \A l \in {"cancel", "add", "refresh"} : loops[l].list \in [Nodes -> Statuses]

LogType ==
  /\ FrameType
  /\ obs \in Accounts
  /\ store \in [Nodes -> Nat]
  /\ missed \in [Nodes -> Nat]

\* What keeps a sample from being complete for node n until what was lost a ticks ago
\* is older than the interval.
Doubt(n, a) ==
  \/ beat[n] > Silence
  \/ obs.node[n] <= a \/ obs.floor <= a \/ obs.fleet <= a
  \/ obs.unsure[n] + a >= Window \/ obs.all + a >= Window
  \/ n \notin Req(obs)
  \/ obs.set.src # "logs"

\* The observations follow the settings, and the nodes they exclude are not required.
Follows ==
  /\ obs.set.src \in {"none", set.src}
  /\ Known(obs) => \A n \in obs.excl : obs.list[n] = "disabled"

\* Who is heard has a stream, perhaps a deaf one.
Heard == \A n \in Nodes : beat[n] <= Silence => \E k \in Slots : task[n][k] \in {"open", "deaf"}

\* A record that will not be stored.
Doomed(n, k) == prep[n][k].st \in {"dated", "undated"} /\ ~prep[n][k].good

\* Whatever was lost, or will be, within the interval is accounted for.
LossesKnown ==
  /\ \A n \in Nodes : missed[n] < Window => Doubt(n, missed[n])
  /\ \A n \in Nodes, k \in Slots : Doomed(n, k) /\ prep[n][k].age < Window => Doubt(n, prep[n][k].age)

LogInv == LogType /\ Follows /\ Heard /\ LossesKnown

\* Observations that follow from obs without hiding anything.
Weaker(o) ==
  /\ o \in Accounts
  /\ \A n \in Nodes : o.node[n] <= obs.node[n] /\ obs.unsure[n] <= o.unsure[n]
  /\ o.floor <= obs.floor /\ o.fleet <= obs.fleet /\ obs.all <= o.all
  /\ o.set # obs.set => o.floor = 0
  /\ o.set.src # obs.set.src /\ o.set.src = "logs" => o.floor = 0
  /\ Regenerated(o) => o.floor = 0 \/ o.fleet = 0
  /\ \A n \in Renewed(o) : o.node[n] = 0

\* What was in doubt for a loss is in doubt for an older one.
LEMMA DoubtGrows ==
  ASSUME LogType, NEW n \in Nodes, NEW a \in Nat, NEW b \in Nat, a <= b, Doubt(n, a)
  PROVE  Doubt(n, b)
  BY ConstantsAssumption DEF Doubt, LogType, FrameType, Accounts

\* Nodes that are new in the fleet are among the renewed ones.
LEMMA NewRenewed == ASSUME NEW o, NEW n \in Req(o), n \notin Req(obs) PROVE n \in Renewed(o)
  BY DEF Renewed

\* _refresh_required_nodes leaves alone what it is not about.
LEMMA RequiredFacts ==
  ASSUME LogType, NEW o \in Accounts, NEW r, r = Required(o)
  PROVE  /\ r \in Accounts
         /\ r.set = o.set /\ r.list = o.list /\ r.excl = o.excl /\ r.seen = o.seen /\ r.floor = o.floor
         /\ r.unsure = o.unsure /\ r.all = o.all
         /\ r.fleet \in {0, o.fleet} /\ (Known(o) # Known(obs) => r.fleet = 0)
         /\ \A n \in Nodes : r.node[n] = IF n \in Renewed(o) THEN 0 ELSE o.node[n]
  <1> DEFINE fleet == IF Known(o) # Known(obs) \/ (Known(o) /\ Req(o) = {} /\ Req(obs) # {}) THEN 0 ELSE o.fleet
             node == [n \in Nodes |-> IF n \in Renewed(o) THEN 0 ELSE o.node[n]]
             state == IF Known(o) THEN (o.state \cup Renewed(o)) \cap Req(o) ELSE o.state
  <1>1. r = [o EXCEPT !.fleet = fleet, !.node = node, !.state = state]
    BY DEF Required
  <1>2. fleet \in Nat /\ node \in [Nodes -> Nat] /\ state \in SUBSET Nodes
    BY DEF Accounts, Req
  <1>3. fleet \in {0, o.fleet} /\ (Known(o) # Known(obs) => fleet = 0)
    OBVIOUS
  <1>4. \A n \in Nodes : node[n] = IF n \in Renewed(o) THEN 0 ELSE o.node[n]
    OBVIOUS
  <1> HIDE DEF fleet, node, state
  <1> QED
    BY <1>1, <1>2, <1>3, <1>4 DEF Accounts

\* The same list and settings renew and require the same nodes.
LEMMA SameNodes ==
  ASSUME NEW o, NEW r, r.list = o.list, r.set = o.set
  PROVE  Req(r) = Req(o) /\ Known(r) = Known(o) /\ Renewed(r) = Renewed(o)
  <1>1. Req(r) = Req(o) /\ Known(r) = Known(o)
    BY DEF Req, Known
  <1>2. Conn(r) = Conn(o)
    BY <1>1 DEF Conn
  <1> QED
    BY <1>1, <1>2 DEF Renewed

\* Observations hide nothing of themselves.
LEMMA SelfWeaker == ASSUME LogType PROVE Weaker(obs)
  <1>1. Renewed(obs) = Req(obs) \/ Renewed(obs) = {}
    BY DEF Renewed
  <1>2. Known(obs) \/ Req(obs) = {}
    BY DEF Known, Req, NoList
  <1>3. Renewed(obs) = {}
    BY <1>1, <1>2 DEF Renewed
  <1>4. ~Regenerated(obs)
    BY ConstantsAssumption DEF Regenerated, Stale, LogType, FrameType, Accounts
  <1> QED
    BY <1>3, <1>4 DEF Weaker, LogType, FrameType, Accounts

\* The observations a step starts from: configured as the settings say.
LEMMA ConfiguredFacts ==
  ASSUME LogType
  PROVE  /\ Weaker(Configured)
         /\ Configured.set = set /\ Configured.list = obs.list /\ Configured.excl = obs.excl
         /\ Configured.seen = obs.seen
  <1>1. CASE obs.set = set
    BY <1>1, SelfWeaker DEF Configured
  <1>2. CASE obs.set # set
    <2> DEFINE o == [obs EXCEPT !.set = set, !.floor = 0]
               r == Required(o)
    <2>1. /\ o \in Accounts /\ o.set = set /\ o.list = obs.list /\ o.excl = obs.excl /\ o.seen = obs.seen
          /\ o.floor = 0 /\ o.fleet = obs.fleet /\ o.node = obs.node /\ o.unsure = obs.unsure /\ o.all = obs.all
      BY DEF LogType, FrameType, Accounts
    <2> HIDE DEF o
    <2>2. r = Required(o)
      OBVIOUS
    <2> HIDE DEF r
    <2>3. /\ r \in Accounts
          /\ r.set = o.set /\ r.list = o.list /\ r.excl = o.excl /\ r.seen = o.seen /\ r.floor = o.floor
          /\ r.unsure = o.unsure /\ r.all = o.all
          /\ r.fleet \in {0, o.fleet} /\ (Known(o) # Known(obs) => r.fleet = 0)
          /\ \A n \in Nodes : r.node[n] = IF n \in Renewed(o) THEN 0 ELSE o.node[n]
      BY <2>1, <2>2, RequiredFacts
    <2>4. Renewed(r) = Renewed(o)
      BY <2>3, SameNodes
    <2>5. Weaker(r)
      <3>a. obs.node \in [Nodes -> Nat] /\ obs.unsure \in [Nodes -> Nat]
        BY DEF LogType, FrameType, Accounts
      <3>1. \A n \in Nodes : r.node[n] <= obs.node[n] /\ obs.unsure[n] <= r.unsure[n]
        <4> TAKE n \in Nodes
        <4>1. obs.node[n] \in Nat /\ obs.unsure[n] \in Nat
          BY <3>a
        <4>2. r.node[n] \in {0, obs.node[n]} /\ r.unsure[n] = obs.unsure[n]
          BY <2>1, <2>3
        <4> QED
          BY <4>1, <4>2
      <3>2. \A n \in Renewed(r) : r.node[n] = 0
        BY <2>3, <2>4 DEF Renewed, Req
      <3>3. r.floor = 0 /\ r.fleet <= obs.fleet /\ obs.all <= r.all /\ r.floor <= obs.floor
        BY <2>1, <2>3 DEF LogType, FrameType, Accounts
      <3> QED
        BY <2>3, <3>1, <3>2, <3>3 DEF Weaker
    <2>6. Configured = r
      BY <1>2, <2>2 DEF Configured, o
    <2> QED
      BY <2>1, <2>3, <2>5, <2>6
  <1> QED
    BY <1>1, <1>2

\* The list of nodes that was read is taken over.
LEMMA RegisteredFacts ==
  ASSUME LogType, Follows, NEW list \in [Nodes -> Statuses]
  PROVE  /\ Weaker(Registered(list)) /\ Registered(list).set = set
         /\ Known(Registered(list)) => \A n \in Registered(list).excl : Registered(list).list[n] = "disabled"
  <1> DEFINE c == Configured
             fleet == IF Stale THEN 0 ELSE c.fleet
             excl == IF list = NoList THEN c.excl ELSE {n \in Nodes : list[n] = "disabled"}
             o == [c EXCEPT !.list = list, !.seen = 0, !.fleet = fleet, !.excl = excl]
             r == Required(o)
  <1>1. Weaker(c) /\ c \in Accounts /\ c.set = set
    BY ConfiguredFacts DEF Weaker
  <1> HIDE DEF c
  <1>2. fleet \in Nat /\ excl \in SUBSET Nodes /\ fleet <= c.fleet /\ (Stale => fleet = 0)
    BY <1>1 DEF Accounts
  <1>3. Registered(list) = r
    BY DEF Registered, c
  <1>x. list # NoList => excl = {n \in Nodes : list[n] = "disabled"}
    OBVIOUS
  <1> HIDE DEF fleet, excl
  <1>4. /\ o \in Accounts /\ o.set = set /\ o.list = list /\ o.excl = excl
        /\ o.floor = c.floor /\ o.fleet = fleet /\ o.node = c.node /\ o.unsure = c.unsure /\ o.all = c.all
    BY <1>1, <1>2 DEF Accounts
  <1> HIDE DEF o
  <1>5. /\ r \in Accounts
        /\ r.set = o.set /\ r.list = o.list /\ r.excl = o.excl /\ r.seen = o.seen /\ r.floor = o.floor
        /\ r.unsure = o.unsure /\ r.all = o.all
        /\ r.fleet \in {0, o.fleet} /\ (Known(o) # Known(obs) => r.fleet = 0)
        /\ \A n \in Nodes : r.node[n] = IF n \in Renewed(o) THEN 0 ELSE o.node[n]
    BY <1>4, RequiredFacts
  <1> HIDE DEF r
  <1>6. Renewed(r) = Renewed(o) /\ Known(r) = Known(o)
    BY <1>5, SameNodes
  <1>7. Weaker(r)
    <2>a. /\ obs.node \in [Nodes -> Nat] /\ obs.unsure \in [Nodes -> Nat]
          /\ c.node \in [Nodes -> Nat] /\ c.unsure \in [Nodes -> Nat]
      BY <1>1 DEF LogType, FrameType, Accounts
    <2>1. \A n \in Nodes : r.node[n] <= obs.node[n] /\ obs.unsure[n] <= r.unsure[n]
      <3> TAKE n \in Nodes
      <3>1. obs.node[n] \in Nat /\ c.node[n] \in Nat /\ obs.unsure[n] \in Nat /\ c.unsure[n] \in Nat
        BY <2>a
      <3>2. r.node[n] \in {0, c.node[n]} /\ r.unsure[n] = c.unsure[n]
        BY <1>4, <1>5
      <3>3. c.node[n] <= obs.node[n] /\ obs.unsure[n] <= c.unsure[n]
        BY <1>1 DEF Weaker
      <3> QED
        BY <3>1, <3>2, <3>3
    <2>2. \A n \in Renewed(r) : r.node[n] = 0
      BY <1>5, <1>6 DEF Renewed, Req
    <2>3. r.floor <= obs.floor /\ r.fleet <= obs.fleet /\ obs.all <= r.all
      BY <1>1, <1>2, <1>4, <1>5 DEF LogType, FrameType, Accounts, Weaker
    <2>4. /\ r.set # obs.set => r.floor = 0
          /\ r.set.src # obs.set.src /\ r.set.src = "logs" => r.floor = 0
      BY <1>1, <1>4, <1>5 DEF Weaker
    <2>5. Stale => r.fleet = 0
      BY <1>2, <1>4, <1>5
    <2>6. Regenerated(r) => r.floor = 0 \/ r.fleet = 0
      BY <1>5, <1>6, <2>4, <2>5 DEF Regenerated
    <2> QED
      BY <1>5, <2>1, <2>2, <2>3, <2>4, <2>6 DEF Weaker
  <1>8. Known(r) => \A n \in r.excl : r.list[n] = "disabled"
    BY <1>4, <1>5, <1>x DEF Known
  <1> QED
    BY <1>3, <1>4, <1>5, <1>7, <1>8

\* A step that turns the observations into o and begins a new interval for the gaps.
Turned(o, gaps) ==
  /\ obs'.set = o.set /\ obs'.list = o.list /\ obs'.excl = o.excl /\ obs'.seen = o.seen
  /\ obs'.floor = o.floor /\ obs'.fleet = o.fleet /\ obs'.unsure = o.unsure /\ obs'.all = o.all
  /\ \A n \in Nodes : obs'.node[n] = IF n \in gaps THEN 0 ELSE o.node[n]
  /\ obs' \in Accounts

\* It leaves in doubt what was, as long as no node is heard again without a gap ...
LEMMA DoubtStays ==
  ASSUME LogType, NEW o, Weaker(o), NEW gaps, Turned(o, gaps), beat' \in [Nodes -> Nat],
         \A n \in Nodes : beat'[n] <= Silence => beat[n] <= Silence \/ n \in gaps,
         NEW n \in Nodes, NEW a \in Nat, Doubt(n, a)
  PROVE  Doubt(n, a)'
  <1>1. /\ obs.node[n] \in Nat /\ obs.unsure[n] \in Nat /\ o.node[n] \in Nat /\ o.unsure[n] \in Nat
        /\ beat[n] \in Nat /\ beat'[n] \in Nat /\ Silence \in Nat /\ Window \in Nat
        /\ obs.floor \in Nat /\ obs.fleet \in Nat /\ obs.all \in Nat
        /\ o.floor \in Nat /\ o.fleet \in Nat /\ o.all \in Nat
    BY ConstantsAssumption DEF LogType, FrameType, Accounts, Weaker
  <1>2. /\ o.node[n] <= obs.node[n] /\ obs.unsure[n] <= o.unsure[n]
        /\ o.floor <= obs.floor /\ o.fleet <= obs.fleet /\ obs.all <= o.all
    BY DEF Weaker
  <1>3. obs'.node[n] = 0 \/ (n \notin gaps /\ obs'.node[n] = o.node[n])
    BY DEF Turned
  <1>4. obs'.node[n] <= o.node[n]
    BY <1>1, <1>3
  <1>5. CASE beat[n] > Silence
    BY <1>1, <1>3, <1>5 DEF Doubt
  <1>6. CASE obs.node[n] <= a \/ obs.floor <= a \/ obs.fleet <= a
    BY <1>1, <1>2, <1>4, <1>6 DEF Doubt, Turned
  <1>7. CASE obs.unsure[n] + a >= Window \/ obs.all + a >= Window
    BY <1>1, <1>2, <1>7 DEF Doubt, Turned
  <1>8. CASE n \notin Req(obs)
    <2>1. CASE n \in Req(o)
      <3>1. o.node[n] = 0
        BY <1>8, <2>1, NewRenewed DEF Weaker
      <3> QED
        BY <1>1, <1>3, <3>1 DEF Doubt
    <2>2. CASE n \notin Req(o)
      <3>1. Req(o) = Req(obs')
        BY DEF Req, Turned
      <3> QED
        BY <2>2, <3>1 DEF Doubt, Req
    <2> QED
      BY <2>1, <2>2
  <1>9. CASE obs.set.src # "logs"
    BY <1>1, <1>9 DEF Doubt, Turned, Weaker
  <1> QED
    BY <1>5, <1>6, <1>7, <1>8, <1>9 DEF Doubt

\* ... and puts in doubt the nodes whose samples it retires.
LEMMA VoidDoubted ==
  ASSUME LogType, NEW o, Weaker(o), NEW gaps, Turned(o, gaps), NEW n \in Void(o, gaps), n \in Nodes
  PROVE  Doubt(n, 0)'
  <1>1. o.node[n] \in Nat /\ o.floor \in Nat /\ o.fleet \in Nat
    BY DEF Weaker, Accounts
  <1>2. o.floor = 0 \/ o.fleet = 0 \/ n \in gaps \/ o.node[n] = 0
    BY DEF Void, Weaker
  <1> QED
    BY <1>1, <1>2 DEF Doubt, Turned

\* What a step loses is in doubt.
LEMMA LossesStay ==
  ASSUME LogType, LogType', LossesKnown, NEW o, Weaker(o), NEW gaps, Turned(o, gaps),
         \A n \in Nodes : beat'[n] <= Silence => beat[n] <= Silence \/ n \in gaps,
         \A n \in Nodes, k \in Slots : Doomed(n, k)' =>
           \/ Doomed(n, k) /\ prep'[n][k].age = prep[n][k].age
           \/ n \in Void(o, gaps)
           \/ Doubt(n, 0)',
         \A n \in Nodes : missed'[n] < Window => missed'[n] = missed[n] \/ Doubt(n, missed[n])'
  PROVE  LossesKnown'
  <1>1. beat' \in [Nodes -> Nat] /\ missed \in [Nodes -> Nat] /\ missed' \in [Nodes -> Nat]
    BY DEF LogType, FrameType
  <1>2. ASSUME NEW n \in Nodes, missed'[n] < Window PROVE Doubt(n, missed[n])'
    <2>1. PICK a \in Nat : a = missed[n]
      BY <1>1
    <2>2. CASE missed'[n] = missed[n]
      <3>1. Doubt(n, a)
        BY <1>2, <2>1, <2>2 DEF LossesKnown
      <3>2. Doubt(n, a)'
        BY <1>1, <3>1, DoubtStays
      <3> QED
        BY <2>1, <2>2, <3>2 DEF Doubt
    <2> QED
      BY <1>2, <2>2
  <1>3. ASSUME NEW n \in Nodes, NEW k \in Slots, Doomed(n, k)', prep'[n][k].age < Window
        PROVE  Doubt(n, prep[n][k].age)'
    <2>1. prep'[n][k].age \in Nat
      BY DEF LogType, FrameType, Records
    <2>2. CASE Doomed(n, k) /\ prep'[n][k].age = prep[n][k].age
      <3>1. PICK a \in Nat : a = prep[n][k].age
        BY <2>1, <2>2
      <3>2. Doubt(n, a)
        BY <1>3, <2>2, <3>1 DEF LossesKnown
      <3>3. Doubt(n, a)'
        BY <1>1, <3>2, DoubtStays
      <3> QED
        BY <2>2, <3>1, <3>3 DEF Doubt
    <2>3. CASE n \in Void(o, gaps) \/ Doubt(n, 0)'
      <3>1. Doubt(n, 0)'
        BY <2>3, VoidDoubted
      <3>2. /\ obs'.node[n] \in Nat /\ obs'.unsure[n] \in Nat /\ obs'.floor \in Nat /\ obs'.fleet \in Nat
            /\ obs'.all \in Nat /\ Window \in Nat
        BY ConstantsAssumption DEF LogType, FrameType, Accounts
      <3> QED
        BY <2>1, <3>1, <3>2 DEF Doubt
    <2> QED
      BY <1>3, <2>2, <2>3
  <1> QED
    BY <1>2, <1>3 DEF LossesKnown

\* What Observe says of the observations ...
LEMMA ObserveTurns ==
  ASSUME NEW o \in Accounts, NEW gaps, NEW ns, NEW s, NEW out, NEW lost, Observe(o, gaps, ns, s, out, lost)
  PROVE  Turned(o, gaps)
  <1> DEFINE node == [n \in Nodes |-> IF n \in gaps THEN 0 ELSE o.node[n]]
             state == o.state \cup (gaps \cap Req(o))
  <1>1. obs' = [o EXCEPT !.node = node, !.state = state]
    BY DEF Observe
  <1>2. node \in [Nodes -> Nat] /\ state \in SUBSET Nodes
    BY DEF Accounts, Req
  <1>3. \A n \in Nodes : node[n] = IF n \in gaps THEN 0 ELSE o.node[n]
    OBVIOUS
  <1> HIDE DEF node, state
  <1> QED
    BY <1>1, <1>2, <1>3 DEF Turned, Accounts

\* ... of what is missed ...
LEMMA ObserveMisses ==
  ASSUME LogType, NEW o, NEW gaps, NEW ns, NEW s, NEW out, NEW lost \in SUBSET (Nodes \X Nat),
         Observe(o, gaps, ns, s, out, lost)
  PROVE  /\ missed' \in [Nodes -> Nat]
         /\ \A n \in Nodes :
              \/ missed'[n] = missed[n] \/ missed'[n] = Window
              \/ n \in out \/ o.set # obs.set
              \/ <<n, missed'[n]>> \in lost
  <1> DEFINE gone == out \cup (IF o.set # obs.set THEN Nodes ELSE {})
             one(n) == IF n \in gone THEN Sooner(store[n], missed[n]) ELSE missed[n]
             two(n) == IF \E r \in lost : r[1] = n THEN (CHOOSE r \in lost : r[1] = n)[2] ELSE Window
  <1>1. missed' = [n \in Nodes |-> Sooner(one(n), two(n))]
    BY DEF Observe
  <1>2. ASSUME NEW n \in Nodes
        PROVE  one(n) \in Nat /\ (one(n) = missed[n] \/ n \in out \/ o.set # obs.set)
    BY DEF LogType, FrameType, Sooner
  <1>3. ASSUME NEW n \in Nodes
        PROVE  two(n) \in Nat /\ (two(n) = Window \/ <<n, two(n)>> \in lost)
    <2>1. CASE \E r \in lost : r[1] = n
      <3> DEFINE r == CHOOSE r \in lost : r[1] = n
      <3>1. r \in lost /\ r[1] = n
        BY <2>1
      <3>2. two(n) = r[2]
        BY <2>1
      <3> HIDE DEF r
      <3>3. r = <<n, r[2]>> /\ r[2] \in Nat
        BY <3>1
      <3> QED
        BY <3>1, <3>2, <3>3
    <2>2. CASE ~\E r \in lost : r[1] = n
      BY <2>2, ConstantsAssumption
    <2> QED
      BY <2>1, <2>2
  <1> HIDE DEF one, two
  <1>4. \A n \in Nodes : missed'[n] = one(n) \/ missed'[n] = two(n)
    BY <1>1 DEF Sooner
  <1>5. missed' \in [Nodes -> Nat]
    BY <1>1, <1>2, <1>3 DEF Sooner
  <1> QED
    BY <1>2, <1>3, <1>4, <1>5

\* ... and of the store.
LEMMA ObserveStores ==
  ASSUME NEW o, NEW gaps, NEW ns, NEW s \in [Nodes -> Nat], NEW out, NEW lost, Observe(o, gaps, ns, s, out, lost)
  PROVE  store' \in [Nodes -> Nat]
  BY ConstantsAssumption DEF Observe

\* Records that a step retires keep their age.
LEMMA VoidedFacts ==
  ASSUME LogType, NEW o, NEW ns
  PROVE  /\ Voided(o, ns) \in [Nodes -> [Slots -> Records]]
         /\ \A n \in Nodes, k \in Slots :
              /\ Voided(o, ns)[n][k].st = prep[n][k].st /\ Voided(o, ns)[n][k].age = prep[n][k].age
              /\ ~Voided(o, ns)[n][k].good => ~prep[n][k].good \/ n \in Void(o, ns)
  <1> DEFINE e(n) == IF n \in Void(o, ns) THEN [k \in Slots |-> [prep[n][k] EXCEPT !.good = FALSE]] ELSE prep[n]
  <1>1. ASSUME NEW n \in Nodes, NEW k \in Slots
        PROVE  /\ [prep[n][k] EXCEPT !.good = FALSE] \in Records /\ prep[n][k] \in Records
               /\ [prep[n][k] EXCEPT !.good = FALSE].st = prep[n][k].st
               /\ [prep[n][k] EXCEPT !.good = FALSE].age = prep[n][k].age
    <2> DEFINE r == prep[n][k]
    <2>1. r \in Records
      BY DEF LogType, FrameType
    <2> HIDE DEF r
    <2>2. [r EXCEPT !.good = FALSE].st = r.st /\ [r EXCEPT !.good = FALSE].age = r.age
      BY <2>1 DEF Records
    <2>3. ASSUME r.st = "none" PROVE [r EXCEPT !.good = FALSE] = NoRecord
      <3>1. r = NoRecord
        BY <2>1, <2>3 DEF Records
      <3>2. [NoRecord EXCEPT !.good = FALSE] = NoRecord
        <4> DEFINE x == [NoRecord EXCEPT !.good = FALSE]
        <4>1. x \in [st : {"none"}, age : {0}, good : {FALSE}]
          BY DEF NoRecord
        <4> HIDE DEF x
        <4>2. x = [st |-> x.st, age |-> x.age, good |-> x.good]
          BY <4>1
        <4>3. x = NoRecord
          BY <4>1, <4>2 DEF NoRecord
        <4> QED
          BY <4>3 DEF x
      <3> QED
        BY <3>1, <3>2
    <2>4. [r EXCEPT !.good = FALSE] \in Records
      <3>1. [r EXCEPT !.good = FALSE] \in [st : {"none", "dated", "undated", "overtaken"}, age : Nat, good : BOOLEAN]
        BY <2>1 DEF Records
      <3> QED
        BY <2>2, <2>3, <3>1 DEF Records
    <2> QED
      BY <2>1, <2>2, <2>4 DEF r
  <1>2. \A n \in Nodes : prep[n] \in [Slots -> Records]
    BY DEF LogType, FrameType
  <1>3. Voided(o, ns) = [n \in Nodes |-> e(n)]
    BY DEF Voided
  <1>4. ASSUME NEW n \in Nodes
        PROVE  e(n) \in [Slots -> Records]
    <2>1. CASE n \in Void(o, ns)
      <3>1. e(n) = [k \in Slots |-> [prep[n][k] EXCEPT !.good = FALSE]]
        BY <2>1
      <3>2. \A k \in Slots : [prep[n][k] EXCEPT !.good = FALSE] \in Records
        BY <1>1
      <3> HIDE DEF e
      <3> QED
        BY <3>1, <3>2
    <2>2. CASE n \notin Void(o, ns)
      <3>1. e(n) = prep[n]
        BY <2>2
      <3> HIDE DEF e
      <3> QED
        BY <1>2, <3>1
    <2> QED
      BY <2>1, <2>2
  <1>5. ASSUME NEW n \in Nodes, NEW k \in Slots
        PROVE  /\ e(n)[k].st = prep[n][k].st /\ e(n)[k].age = prep[n][k].age
               /\ ~e(n)[k].good => ~prep[n][k].good \/ n \in Void(o, ns)
    BY <1>1
  <1> HIDE DEF e
  <1>6. Voided(o, ns) \in [Nodes -> [Slots -> Records]]
    BY <1>3, <1>4
  <1> QED
    BY <1>3, <1>5, <1>6

\* The records a step keeps, if it voids the observations' and ends the tasks in cut.
Retained(o, gaps) ==
  \A n \in Nodes, k \in Slots : Doomed(n, k)' =>
    \/ Doomed(n, k) /\ prep'[n][k].age = prep[n][k].age
    \/ n \in Void(o, gaps)
    \/ Doubt(n, 0)'

\* A step that observes, retires what it must and loses only what is in doubt.
LEMMA ObserveKeeps ==
  ASSUME LogInv, NEW o, Weaker(o), NEW gaps, NEW ns, NEW s \in [Nodes -> Nat],
         NEW out, NEW lost \in SUBSET (Nodes \X Nat), Observe(o, gaps, ns, s, out, lost), FrameType',
         \A n \in Nodes : beat'[n] <= Silence => beat[n] <= Silence \/ n \in gaps,
         Retained(o, gaps),
         out # {} => o.set.src # "logs",
         \A n \in Nodes, a \in Nat : <<n, a>> \in lost => Doubt(n, a)',
         o.set.src \in {"none", set'.src}, Known(o) => \A n \in o.excl : o.list[n] = "disabled",
         Heard'
  PROVE  LogInv'
  <1>1. Turned(o, gaps)
    BY ObserveTurns DEF Weaker
  <1>2. /\ missed' \in [Nodes -> Nat]
        /\ \A n \in Nodes :
             \/ missed'[n] = missed[n] \/ missed'[n] = Window
             \/ n \in out \/ o.set # obs.set
             \/ <<n, missed'[n]>> \in lost
    BY ObserveMisses DEF LogInv
  <1>3. store' \in [Nodes -> Nat]
    BY ObserveStores
  <1>4. LogType'
    BY <1>1, <1>2, <1>3 DEF LogType, FrameType, LogInv, Turned
  <1>5. Follows'
    BY <1>1 DEF Follows, Turned, Known
  <1>6. ASSUME NEW n \in Nodes, missed'[n] < Window PROVE missed'[n] = missed[n] \/ Doubt(n, missed[n])'
    <2>1. PICK a \in Nat : a = missed'[n]
      BY <1>2
    <2>2. CASE n \in out
      BY <1>1, <2>2 DEF Doubt, Turned
    <2>3. CASE o.set # obs.set
      <3>1. obs'.floor = 0
        BY <1>1, <2>3 DEF Turned, Weaker
      <3> QED
        BY <2>1, <3>1 DEF Doubt
    <2>4. CASE <<n, missed'[n]>> \in lost
      <3>1. Doubt(n, a)'
        BY <2>1, <2>4
      <3> QED
        BY <2>1, <3>1 DEF Doubt
    <2>5. missed'[n] # Window
      BY <1>6, <2>1, ConstantsAssumption
    <2> QED
      BY <1>2, <2>2, <2>3, <2>4, <2>5
  <1>7. LossesKnown'
    BY <1>1, <1>4, <1>6, LossesStay DEF LogInv, Retained
  <1> QED
    BY <1>4, <1>5, <1>7 DEF LogInv

\* A step that observes and loses nothing by itself.
LEMMA PlainKeeps ==
  ASSUME LogInv, NEW o, Weaker(o), NEW gaps, Observe(o, gaps, {}, store, {}, {}), FrameType',
         \A n \in Nodes : beat'[n] <= Silence => beat[n] <= Silence \/ n \in gaps,
         Retained(o, gaps), o.set.src \in {"none", set'.src},
         Known(o) => \A n \in o.excl : o.list[n] = "disabled", Heard'
  PROVE  LogInv'
  <1>1. {} \in SUBSET (Nodes \X Nat) /\ store \in [Nodes -> Nat]
    BY DEF LogInv, LogType
  <1>2. \A n \in Nodes, a \in Nat : <<n, a>> \in {} => Doubt(n, a)'
    OBVIOUS
  <1> QED
    BY <1>1, <1>2, ObserveKeeps

\* The first state has lost nothing.
LEMMA LogBegin == Init => LogInv
  <1> SUFFICES ASSUME Init PROVE LogInv
    OBVIOUS
  <1>1. obs \in Accounts /\ obs.set = [src |-> "logs", off |-> {}] /\ ~Known(obs)
    BY ConstantsAssumption DEF Init, NoObservations, Accounts, SettingsTaken, NoList, Statuses, Known
  <1>2. prep \in [Nodes -> [Slots -> Records]] /\ \A n \in Nodes, k \in Slots : prep[n][k].st = "none"
    BY DEF Init, NoRecord, Records
  <1>3. set \in SettingsTaken /\ set.src = "logs"
    BY DEF Init, SettingsTaken
  <1>4. \A l \in {"cancel", "add", "refresh"} : loops[l].list \in [Nodes -> Statuses]
    BY DEF Init, Asleep, NoList, Statuses
  <1>5. LogType
    BY <1>1, <1>2, <1>3, <1>4, ConstantsAssumption DEF Init, LogType, FrameType, Never, Statuses
  <1>6. Follows
    BY <1>1, <1>3 DEF Follows
  <1>7. Heard
    BY ConstantsAssumption DEF Init, Heard, Never
  <1>8. LossesKnown
    BY <1>2, ConstantsAssumption DEF Init, LossesKnown, Doomed
  <1> QED
    BY <1>5, <1>6, <1>7, <1>8 DEF LogInv

\* Records are retired with the samples of their nodes.
LEMMA VoidedRetained ==
  ASSUME LogInv, NEW o, NEW gaps, prep' = Voided(o, gaps)
  PROVE  prep' \in [Nodes -> [Slots -> Records]] /\ Retained(o, gaps)
  <1>1. ASSUME NEW n \in Nodes, NEW k \in Slots, Doomed(n, k)', n \notin Void(o, gaps)
        PROVE  Doomed(n, k) /\ prep'[n][k].age = prep[n][k].age
    BY <1>1, VoidedFacts DEF Doomed, LogInv
  <1> QED
    BY <1>1, VoidedFacts DEF Retained, LogInv

\* A node that is not monitored is not required.
LEMMA Unmonitored ==
  ASSUME NEW o, Known(o) => \A n \in o.excl : o.list[n] = "disabled", NEW n \in Nodes, ~Monitors(o, n)
  PROVE  n \notin Req(o)
  <1>1. CASE Known(o)
    BY <1>1 DEF Monitors, Req
  <1>2. CASE ~Known(o)
    BY <1>2 DEF Known, Req, NoList
  <1> QED
    BY <1>1, <1>2

\* Who is not required is in doubt.
LEMMA UnrequiredDoubted ==
  ASSUME NEW o, NEW gaps, Turned(o, gaps), NEW n, n \notin Req(o), NEW a
  PROVE  Doubt(n, a)'
  <1>1. Req(obs)' = Req(o)
    BY DEF Req, Turned
  <1> QED
    BY <1>1 DEF Doubt

\* Streams whose heartbeat is forgotten are not heard.
LEMMA SilencedFacts ==
  ASSUME LogType, NEW ns, Silenced(ns)
  PROVE  /\ beat' \in [Nodes -> Nat]
         /\ \A n \in Nodes : n \in ns => beat'[n] > Silence
         /\ \A n \in Nodes : n \notin ns => beat'[n] = beat[n]
  <1>1. Never \in Nat /\ Never > Silence
    BY ConstantsAssumption DEF Never
  <1>2. beat \in [Nodes -> Nat]
    BY DEF LogType, FrameType
  <1> HIDE DEF Never
  <1>3. \A n \in Nodes : beat'[n] \in {Never, beat[n]}
    BY DEF Silenced
  <1>4. \A n \in Nodes : n \in ns => beat'[n] = Never
    BY DEF Silenced, Forgotten
  <1>5. \A n \in Nodes : n \notin ns => beat'[n] = beat[n]
    BY DEF Silenced, Forgotten
  <1>6. beat' \in [Nodes -> Nat]
    BY <1>1, <1>2 DEF Silenced
  <1> QED
    BY <1>1, <1>4, <1>5, <1>6

\* Steps that change neither what is known nor what is lost.
LEMMA QuietKeeps ==
  ASSUME LogInv, UNCHANGED <<set, beat, obs, store, prep, missed>>, panel' \in [Nodes -> Statuses],
         task' \in [Nodes -> [Slots -> {"none", "idle", "open", "deaf"}]],
         \A l \in {"cancel", "add", "refresh"} : loops'[l].list \in [Nodes -> Statuses],
         \A n \in Nodes, k \in Slots : task[n][k] \in {"open", "deaf"} => task'[n][k] \in {"open", "deaf"}
  PROVE  LogInv'
  <1>1. LogType'
    BY DEF LogInv, LogType, FrameType
  <1>2. Follows'
    BY DEF LogInv, Follows, Known
  <1>3. Heard'
    BY DEF LogInv, Heard
  <1>4. LossesKnown'
    BY DEF LogInv, LossesKnown, Doomed, Doubt, Req
  <1> QED
    BY <1>1, <1>2, <1>3, <1>4 DEF LogInv

\* The observations as the settings have them.
LEMMA FromSettings ==
  ASSUME LogInv, NEW o, o = Configured
  PROVE  /\ Weaker(o) /\ o.set = set /\ o.list = obs.list /\ o.set.src \in {"none", set.src}
         /\ Known(o) => \A n \in o.excl : o.list[n] = "disabled"
  BY ConfiguredFacts DEF LogInv, Follows, Known

\* A stream is opened.
LEMMA OpenKeeps == ASSUME LogInv, NEW n \in Nodes, NEW k \in Slots, Open(n, k) PROVE LogInv'
  <1> DEFINE o == Configured
  <1>1. /\ Weaker(o) /\ o.set = set /\ o.set.src \in {"none", set.src}
        /\ Known(o) => \A m \in o.excl : o.list[m] = "disabled"
    BY FromSettings
  <1>2. /\ task' = [task EXCEPT ![n][k] = "open"] /\ beat' = [beat EXCEPT ![n] = 0] /\ prep' = Voided(o, {n})
        /\ Observe(o, {n}, {}, store, {}, {}) /\ UNCHANGED <<may, panel, set, loops>>
    BY DEF Open
  <1> HIDE DEF o
  <1>3. prep' \in [Nodes -> [Slots -> Records]] /\ Retained(o, {n})
    BY <1>2, VoidedRetained
  <1>4. FrameType'
    BY <1>2, <1>3 DEF LogInv, LogType, FrameType
  <1>5. Heard'
    BY <1>2 DEF LogInv, LogType, FrameType, Heard
  <1>6. \A m \in Nodes : beat'[m] <= Silence => beat[m] <= Silence \/ m \in {n}
    BY <1>2 DEF LogInv, LogType, FrameType
  <1> QED
    BY <1>1, <1>2, <1>3, <1>4, <1>5, <1>6, PlainKeeps

\* A task ends.
LEMMA LeaveKeeps == ASSUME LogInv, NEW n \in Nodes, NEW k \in Slots, Leave(n, k) PROVE LogInv'
  <1> DEFINE o == Configured
  <1>1. /\ Weaker(o) /\ o.set = set /\ o.set.src \in {"none", set.src}
        /\ Known(o) => \A m \in o.excl : o.list[m] = "disabled"
    BY FromSettings
  <1>2. /\ task' = [task EXCEPT ![n][k] = "none"] /\ task[n][k] = "idle" /\ prep' = Voided(o, {})
        /\ Observe(o, {}, {}, store, {}, {}) /\ UNCHANGED <<may, panel, set, beat, loops>>
    BY DEF Leave
  <1> HIDE DEF o
  <1>3. prep' \in [Nodes -> [Slots -> Records]] /\ Retained(o, {})
    BY <1>2, VoidedRetained
  <1>4. FrameType'
    BY <1>2, <1>3 DEF LogInv, LogType, FrameType
  <1>5. Heard'
    <2>1. \A m \in Nodes, j \in Slots : task[m][j] \in {"open", "deaf"} => task'[m][j] = task[m][j]
      BY <1>2 DEF LogInv, LogType, FrameType
    <2> QED
      BY <1>2, <2>1 DEF LogInv, Heard
  <1>6. \A m \in Nodes : beat'[m] <= Silence => beat[m] <= Silence \/ m \in {}
    BY <1>2
  <1> QED
    BY <1>1, <1>2, <1>3, <1>4, <1>5, <1>6, PlainKeeps

\* The panel refuses a key.
LEMMA RefusedKeeps == ASSUME LogInv, NEW n \in Nodes, NEW k \in Slots, Refused(n, k) PROVE LogInv'
  <1>1. \A m \in Nodes, j \in Slots : task[m][j] \in {"open", "deaf"} => task'[m][j] = task[m][j]
    BY DEF Refused, LogInv, LogType, FrameType
  <1> QED
    BY <1>1, QuietKeeps DEF Refused, LogInv, LogType, FrameType

\* A stream goes deaf.
LEMMA DeafKeeps == ASSUME LogInv, NEW n \in Nodes, NEW k \in Slots, GoDeaf(n, k) PROVE LogInv'
  <1>1. \A m \in Nodes, j \in Slots : task[m][j] \in {"open", "deaf"} => task'[m][j] \in {"open", "deaf"}
    BY DEF GoDeaf, LogInv, LogType, FrameType
  <1> QED
    BY <1>1, QuietKeeps DEF GoDeaf, LogInv, LogType, FrameType

\* The list of nodes is read.
LEMMA ReadKeeps == ASSUME LogInv, NEW l \in {"cancel", "add", "refresh"}, ReadList(l) PROVE LogInv'
  <1>1. \A i \in {"cancel", "add", "refresh"} : loops'[i].list = loops[i].list \/ loops'[i].list = panel
    BY DEF ReadList
  <1>2. \A i \in {"cancel", "add", "refresh"} : loops'[i].list \in [Nodes -> Statuses]
    BY <1>1 DEF LogInv, LogType, FrameType
  <1> QED
    BY <1>2, QuietKeeps DEF ReadList, LogInv, LogType, FrameType

\* A node changes on the panel, or a sample is judged.
LEMMA NodeKeeps == ASSUME LogInv, NEW n \in Nodes, NodeChanges(n) PROVE LogInv'
  <1>1. panel' \in [Nodes -> Statuses]
    BY DEF NodeChanges, LogInv, LogType, FrameType, Statuses
  <1> QED
    BY <1>1, QuietKeeps DEF NodeChanges, LogInv, LogType, FrameType

LEMMA JudgeKeeps == ASSUME LogInv, Clear \/ EndScan PROVE LogInv'
  BY QuietKeeps DEF Clear, EndScan, LogInv, LogType, FrameType

\* A stream ends.
LEMMA CloseKeeps == ASSUME LogInv, NEW n \in Nodes, NEW k \in Slots, Close(n, k) PROVE LogInv'
  <1>1. /\ Weaker(obs) /\ obs.set.src \in {"none", set.src}
        /\ Known(obs) => \A m \in obs.excl : obs.list[m] = "disabled"
    BY SelfWeaker DEF LogInv, Follows
  <1> DEFINE gaps == Forgotten({n})
  <1>2. /\ task' = [task EXCEPT ![n][k] = "idle"] /\ Silenced({n}) /\ prep' = Voided(obs, gaps)
        /\ Observe(obs, gaps, {}, store, {}, {}) /\ UNCHANGED <<panel, set, loops>>
    BY DEF Close
  <1> HIDE DEF gaps
  <1>3. prep' \in [Nodes -> [Slots -> Records]] /\ Retained(obs, gaps)
    BY <1>2, VoidedRetained
  <1>4. /\ beat' \in [Nodes -> Nat] /\ beat'[n] > Silence
        /\ \A m \in Nodes : m # n => beat'[m] = beat[m]
    BY <1>2, SilencedFacts DEF LogInv
  <1>5. FrameType'
    BY <1>2, <1>3, <1>4 DEF LogInv, LogType, FrameType
  <1>6. \A m \in Nodes : beat'[m] <= Silence => m # n /\ beat'[m] = beat[m]
    BY <1>4, ConstantsAssumption
  <1>7. Heard'
    BY <1>2, <1>6 DEF LogInv, LogType, FrameType, Heard
  <1> QED
    BY <1>1, <1>2, <1>3, <1>5, <1>6, <1>7, PlainKeeps

\* A stream that is no longer wanted ends.
LEMMA RecheckKeeps == ASSUME LogInv, NEW n \in Nodes, NEW k \in Slots, Recheck(n, k) PROVE LogInv'
  <1> DEFINE o == Configured
             gaps == Forgotten({n})
             out == IF Monitors(o, n) THEN {n} ELSE {}
  <1>1. /\ Weaker(o) /\ o.set = set /\ o.set.src \in {"none", set.src}
        /\ Known(o) => \A m \in o.excl : o.list[m] = "disabled"
    BY FromSettings
  <1>2. /\ task' = [task EXCEPT ![n][k] = "idle"] /\ Silenced({n}) /\ prep' = Voided(o, gaps)
        /\ Observe(o, gaps, {}, store, out, {}) /\ UNCHANGED <<may, panel, set, loops>>
        /\ (~Monitors(o, n) \/ set.src = "api")
    BY DEF Recheck
  <1>3. out # {} => o.set.src # "logs"
    BY <1>1, <1>2
  <1> HIDE DEF gaps, o, out
  <1>4. prep' \in [Nodes -> [Slots -> Records]] /\ Retained(o, gaps)
    BY <1>2, VoidedRetained
  <1>5. /\ beat' \in [Nodes -> Nat] /\ beat'[n] > Silence
        /\ \A m \in Nodes : m # n => beat'[m] = beat[m]
    BY <1>2, SilencedFacts DEF LogInv
  <1>6. FrameType'
    BY <1>2, <1>4, <1>5 DEF LogInv, LogType, FrameType
  <1>7. \A m \in Nodes : beat'[m] <= Silence => m # n /\ beat'[m] = beat[m]
    BY <1>5, ConstantsAssumption
  <1>8. Heard'
    BY <1>2, <1>7 DEF LogInv, LogType, FrameType, Heard
  <1>9. {} \in SUBSET (Nodes \X Nat) /\ store \in [Nodes -> Nat] /\ \A m \in Nodes, a \in Nat : <<m, a>> \in {} => Doubt(m, a)'
    BY DEF LogInv, LogType
  <1> QED
    BY <1>1, <1>2, <1>3, <1>4, <1>6, <1>7, <1>8, <1>9, ObserveKeeps

\* The observations as the list of nodes has them.
LEMMA FromList ==
  ASSUME LogInv, NEW list \in [Nodes -> Statuses], NEW o, o = Registered(list)
  PROVE  /\ Weaker(o) /\ o.set = set /\ o.set.src \in {"none", set.src}
         /\ Known(o) => \A n \in o.excl : o.list[n] = "disabled"
  BY RegisteredFacts DEF LogInv

\* The tasks that are created are not streams yet, and none is ended.
LEMMA CreatedFacts ==
  ASSUME LogInv, NEW o, NEW ns, Created(o, ns)
  PROVE  /\ task' \in [Nodes -> [Slots -> {"none", "idle", "open", "deaf"}]]
         /\ \A n \in Nodes, k \in Slots : task[n][k] \in {"open", "deaf"} => task'[n][k] = task[n][k]
  BY DEF Created, LogInv, LogType, FrameType

\* The list cannot be read.
LEMMA FailKeeps == ASSUME LogInv, NEW l \in {"cancel", "add", "refresh"}, ListFails(l) PROVE LogInv'
  <1> DEFINE o == Registered(NoList)
  <1>0. NoList \in [Nodes -> Statuses]
    BY DEF NoList, Statuses
  <1>1. /\ Weaker(o) /\ o.set = set /\ o.set.src \in {"none", set.src}
        /\ Known(o) => \A m \in o.excl : o.list[m] = "disabled"
    BY <1>0, FromList
  <1>2. /\ prep' = Voided(o, {}) /\ Observe(o, {}, {}, store, {}, {})
        /\ UNCHANGED <<panel, set, task, beat, loops>>
    BY DEF ListFails
  <1> HIDE DEF o
  <1>3. prep' \in [Nodes -> [Slots -> Records]] /\ Retained(o, {})
    BY <1>2, VoidedRetained
  <1>4. FrameType' /\ Heard'
    BY <1>2, <1>3 DEF LogInv, LogType, FrameType, Heard
  <1> QED
    BY <1>1, <1>2, <1>3, <1>4, PlainKeeps

\* Tasks are created for the nodes in a list.
LEMMA CreateKeeps ==
  ASSUME LogInv, NEW l \in {"cancel", "add", "refresh"}, NEW ns, NEW o, o = Registered(loops[l].list),
         loops' = [loops EXCEPT ![l] = Asleep], Created(o, ns), prep' = Voided(o, {}),
         Observe(o, {}, {}, store, {}, {}), UNCHANGED <<may, panel, set, beat>>
  PROVE  LogInv'
  <1>1. /\ Weaker(o) /\ o.set = set /\ o.set.src \in {"none", set.src}
        /\ Known(o) => \A m \in o.excl : o.list[m] = "disabled"
    BY FromList DEF LogInv, LogType, FrameType
  <1>2. prep' \in [Nodes -> [Slots -> Records]] /\ Retained(o, {})
    BY VoidedRetained
  <1>3. /\ task' \in [Nodes -> [Slots -> {"none", "idle", "open", "deaf"}]]
        /\ \A n \in Nodes, k \in Slots : task[n][k] \in {"open", "deaf"} => task'[n][k] = task[n][k]
    BY CreatedFacts
  <1>4. \A i \in {"cancel", "add", "refresh"} : loops'[i].list \in [Nodes -> Statuses]
    <2>1. \A i \in {"cancel", "add", "refresh"} : loops'[i] = loops[i] \/ loops'[i] = Asleep
      OBVIOUS
    <2>2. Asleep.list \in [Nodes -> Statuses]
      BY DEF Asleep, NoList, Statuses
    <2> QED
      BY <2>1, <2>2 DEF LogInv, LogType, FrameType
  <1>5. FrameType' /\ Heard'
    BY <1>2, <1>3, <1>4 DEF LogInv, LogType, FrameType, Heard
  <1>6. \A m \in Nodes : beat'[m] <= Silence => beat[m] <= Silence \/ m \in {}
    OBVIOUS
  <1> QED
    BY <1>1, <1>2, <1>5, <1>6, PlainKeeps

LEMMA AddKeeps == ASSUME LogInv, AddPass PROVE LogInv'
  BY CreateKeeps DEF AddPass

LEMMA StartKeeps == ASSUME LogInv, RefreshStart PROVE LogInv'
  BY CreateKeeps DEF RefreshStart

\* Tasks are cancelled, and the heartbeats of their nodes forgotten: what they were
\* preparing is lost and in doubt.
LEMMA CancelledKeeps ==
  ASSUME LogInv, NEW o, Weaker(o), o.set = set, o.set.src \in {"none", set.src},
         Known(o) => \A m \in o.excl : o.list[m] = "disabled",
         NEW cancelled \in SUBSET (Nodes \X Slots), NEW gaps, Cancelled(o, cancelled, gaps), UNCHANGED <<panel, set>>,
         beat' \in [Nodes -> Nat],
         \A n \in Nodes : beat'[n] <= Silence => beat'[n] = beat[n] /\ \A k \in Slots : <<n, k>> \notin cancelled,
         \A l \in {"cancel", "add", "refresh"} : loops'[l].list \in [Nodes -> Statuses]
  PROVE  LogInv'
  <1> DEFINE lost == Unfinished(cancelled)
  <1>1. /\ \A n \in Nodes, k \in Slots : task'[n][k] = IF <<n, k>> \in cancelled THEN "none" ELSE task[n][k]
        /\ task' \in [Nodes -> [Slots -> {"none", "idle", "open", "deaf"}]]
    BY DEF Cancelled, LogInv, LogType, FrameType
  <1>2. Observe(o, gaps, {}, store, {}, lost)
    BY DEF Cancelled
  <1>3. lost \in SUBSET (Nodes \X Nat)
    BY DEF Unfinished, LogInv, LogType, FrameType, Records
  <1>4. ASSUME NEW n \in Nodes, NEW a \in Nat, <<n, a>> \in lost PROVE Doubt(n, a)'
    <2>1. PICK c \in cancelled : <<n, a>> = <<c[1], prep[c[1]][c[2]].age>>
      BY <1>4 DEF Unfinished
    <2>2. c = <<n, c[2]>> /\ c[2] \in Slots
      BY <2>1
    <2>3. ~(beat'[n] <= Silence)
      <3>1. <<n, c[2]>> \in cancelled
        BY <2>2
      <3> QED
        BY <2>2, <3>1
    <2>4. beat'[n] > Silence
      <3>1. beat'[n] \in Nat /\ Silence \in Nat
        BY ConstantsAssumption
      <3> QED
        BY <2>3, <3>1
    <2> QED
      BY <2>4 DEF Doubt
  <1> HIDE DEF lost
  <1>5. prep' \in [Nodes -> [Slots -> Records]] /\ Retained(o, gaps)
    <2> DEFINE v == Voided(o, gaps)
    <2>1. /\ v \in [Nodes -> [Slots -> Records]]
          /\ \A n \in Nodes, k \in Slots :
               /\ v[n][k].st = prep[n][k].st /\ v[n][k].age = prep[n][k].age
               /\ ~v[n][k].good => ~prep[n][k].good \/ n \in Void(o, gaps)
      BY VoidedFacts DEF LogInv
    <2>2. prep' = [n \in Nodes |-> [k \in Slots |-> IF <<n, k>> \in cancelled THEN NoRecord ELSE v[n][k]]]
      BY DEF Cancelled
    <2> HIDE DEF v
    <2>3. NoRecord \in Records /\ NoRecord.st = "none"
      BY DEF NoRecord, Records
    <2>4. prep' \in [Nodes -> [Slots -> Records]]
      BY <2>1, <2>2, <2>3
    <2>5. ASSUME NEW n \in Nodes, NEW k \in Slots, Doomed(n, k)', n \notin Void(o, gaps)
          PROVE  Doomed(n, k) /\ prep'[n][k].age = prep[n][k].age
      <3>1. prep'[n][k] = NoRecord \/ prep'[n][k] = v[n][k]
        BY <2>2
      <3> QED
        BY <2>1, <2>3, <2>5, <3>1 DEF Doomed
    <2> QED
      BY <2>4, <2>5 DEF Retained
  <1>6. FrameType'
    BY <1>1, <1>5 DEF LogInv, LogType, FrameType
  <1>7. Heard'
    <2> SUFFICES ASSUME NEW n \in Nodes, beat'[n] <= Silence
                 PROVE  \E k \in Slots : task'[n][k] \in {"open", "deaf"}
      BY DEF Heard
    <2>1. PICK k \in Slots : task[n][k] \in {"open", "deaf"}
      BY DEF LogInv, Heard
    <2>2. task'[n][k] = task[n][k]
      BY <1>1
    <2> QED
      BY <2>1, <2>2
  <1>8. \A m \in Nodes : beat'[m] <= Silence => beat[m] <= Silence \/ m \in gaps
    OBVIOUS
  <1>9. store \in [Nodes -> Nat] /\ set'.src = set.src
    BY DEF LogInv, LogType
  <1> QED
    BY <1>2, <1>3, <1>4, <1>5, <1>6, <1>7, <1>8, <1>9, ObserveKeeps

LEMMA CancelKeeps == ASSUME LogInv, CancelPass PROVE LogInv'
  <1> DEFINE o == Registered(loops["cancel"].list)
             cancelled == {c \in Unwanted(o, loops["cancel"].list) \X Slots :
                            c[2] \in Tasks(c[1]) /\ (Monitors(o, c[1]) => \A j \in Tasks(c[1]) : c[2] <= j)}
             ns == {c[1] : c \in cancelled}
  <1>1. /\ loops' = [loops EXCEPT !["cancel"] = Asleep] /\ Silenced(ns)
        /\ Cancelled(o, cancelled, Forgotten(ns)) /\ UNCHANGED <<may, panel, set>>
    BY DEF CancelPass
  <1>2. /\ Weaker(o) /\ o.set = set /\ o.set.src \in {"none", set.src}
        /\ Known(o) => \A m \in o.excl : o.list[m] = "disabled"
    BY FromList DEF LogInv, LogType, FrameType
  <1> HIDE DEF o
  <1>3. cancelled \in SUBSET (Nodes \X Slots)
    BY DEF Unwanted
  <1>4. \A n \in Nodes, k \in Slots : <<n, k>> \in cancelled => n \in ns
    OBVIOUS
  <1> HIDE DEF cancelled, ns
  <1>5. /\ beat' \in [Nodes -> Nat]
        /\ \A n \in Nodes : n \in ns => beat'[n] > Silence
        /\ \A n \in Nodes : n \notin ns => beat'[n] = beat[n]
    BY <1>1, SilencedFacts DEF LogInv
  <1>6. \A n \in Nodes : beat'[n] <= Silence => n \notin ns
    BY <1>5, ConstantsAssumption
  <1>7. \A i \in {"cancel", "add", "refresh"} : loops'[i].list \in [Nodes -> Statuses]
    <2>1. \A i \in {"cancel", "add", "refresh"} : loops'[i] = loops[i] \/ loops'[i] = Asleep
      BY <1>1
    <2>2. Asleep.list \in [Nodes -> Statuses]
      BY DEF Asleep, NoList, Statuses
    <2> QED
      BY <2>1, <2>2 DEF LogInv, LogType, FrameType
  <1> QED
    BY <1>1, <1>2, <1>3, <1>4, <1>5, <1>6, <1>7, CancelledKeeps

LEMMA StopKeeps == ASSUME LogInv, RefreshStop PROVE LogInv'
  <1> DEFINE o == Registered(NoList)
             cancelled == {c \in Nodes \X Slots : task[c[1]][c[2]] # "none"}
  <1>1. /\ loops' = [loops EXCEPT !["refresh"].pc = "stopped"] /\ beat' = [n \in Nodes |-> Never]
        /\ Cancelled(o, cancelled, Forgotten(Nodes)) /\ UNCHANGED <<panel, set>>
    BY DEF RefreshStop
  <1>2. NoList \in [Nodes -> Statuses]
    BY DEF NoList, Statuses
  <1>3. /\ Weaker(o) /\ o.set = set /\ o.set.src \in {"none", set.src}
        /\ Known(o) => \A m \in o.excl : o.list[m] = "disabled"
    BY <1>2, FromList
  <1>4. cancelled \in SUBSET (Nodes \X Slots)
    OBVIOUS
  <1> HIDE DEF o, cancelled
  <1>5. beat' \in [Nodes -> Nat] /\ \A n \in Nodes : ~(beat'[n] <= Silence)
    BY <1>1, ConstantsAssumption DEF Never
  <1>6. \A i \in {"cancel", "add", "refresh"} : loops'[i].list = loops[i].list
    BY <1>1
  <1>7. \A i \in {"cancel", "add", "refresh"} : loops'[i].list \in [Nodes -> Statuses]
    BY <1>6 DEF LogInv, LogType, FrameType
  <1> QED
    BY <1>1, <1>3, <1>4, <1>5, <1>7, CancelledKeeps

\* A node is in doubt for what is older than the interval.
LEMMA OldDoubted == ASSUME LogType, NEW n \in Nodes, NEW a \in Nat, a >= Window PROVE Doubt(n, a)
  BY ConstantsAssumption DEF LogType, FrameType, Accounts, Doubt

\* The observations that are not configured turn into themselves.
LEMMA SameTurned == ASSUME LogType, UNCHANGED obs PROVE Turned(obs, {})
  BY DEF Turned, LogType, FrameType

\* The user is active, and a stream delivers the record.
LEMMA DeliveredKeeps ==
  ASSUME LogInv, NEW n \in Nodes, NEW st \in {"dated", "undated"}, NEW o, o = Configured, NEW ks,
         prep' = [Voided(o, {}) EXCEPT ![n] = [k \in Slots |-> IF k \in ks THEN [st |-> st, age |-> 0, good |-> TRUE] ELSE @[k]]],
         Observe(o, {}, {}, store, {}, {}), UNCHANGED <<panel, set, task, beat, loops>>
  PROVE  LogInv'
  <1> DEFINE v == Voided(o, {})
             r == [st |-> st, age |-> 0, good |-> TRUE]
  <1>1. /\ Weaker(o) /\ o.set = set /\ o.set.src \in {"none", set.src}
        /\ Known(o) => \A m \in o.excl : o.list[m] = "disabled"
    BY FromSettings
  <1>2. /\ v \in [Nodes -> [Slots -> Records]]
        /\ \A m \in Nodes, k \in Slots :
             /\ v[m][k].st = prep[m][k].st /\ v[m][k].age = prep[m][k].age
             /\ ~v[m][k].good => ~prep[m][k].good \/ m \in Void(o, {})
    BY VoidedFacts DEF LogInv
  <1>3. r \in Records /\ r.good
    BY DEF Records
  <1>4. prep' = [v EXCEPT ![n] = [k \in Slots |-> IF k \in ks THEN r ELSE v[n][k]]]
    BY <1>2
  <1> HIDE DEF v, r
  <1>5. prep' \in [Nodes -> [Slots -> Records]]
    <2> DEFINE w == [k \in Slots |-> IF k \in ks THEN r ELSE v[n][k]]
    <2>1. w \in [Slots -> Records]
      BY <1>2, <1>3
    <2> HIDE DEF w
    <2>2. prep' = [v EXCEPT ![n] = w]
      BY <1>4 DEF w
    <2> QED
      BY <1>2, <2>1, <2>2
  <1>6. \A m \in Nodes, k \in Slots : prep'[m][k] = r \/ prep'[m][k] = v[m][k]
    BY <1>2, <1>4
  <1>7. Retained(o, {})
    <2>1. ASSUME NEW m \in Nodes, NEW k \in Slots, Doomed(m, k)', m \notin Void(o, {})
          PROVE  Doomed(m, k) /\ prep'[m][k].age = prep[m][k].age
      <3>1. prep'[m][k] = v[m][k]
        BY <1>3, <1>6, <2>1 DEF Doomed
      <3> QED
        BY <1>2, <2>1, <3>1 DEF Doomed
    <2> QED
      BY <2>1 DEF Retained
  <1>8. FrameType' /\ Heard'
    BY <1>5 DEF LogInv, LogType, FrameType, Heard
  <1> QED
    BY <1>1, <1>7, <1>8, PlainKeeps

\* The user is active on a node that is not monitored: the line is dropped.
LEMMA DroppedKeeps ==
  ASSUME LogInv, NEW n \in Nodes, NEW o, o = Configured, ~Monitors(o, n), prep' = Voided(o, {}),
         Observe(o, {}, {}, store, {}, {<<n, 0>>}), UNCHANGED <<panel, set, task, beat, loops>>
  PROVE  LogInv'
  <1>1. /\ Weaker(o) /\ o.set = set /\ o.set.src \in {"none", set.src}
        /\ Known(o) => \A m \in o.excl : o.list[m] = "disabled"
    BY FromSettings
  <1>2. prep' \in [Nodes -> [Slots -> Records]] /\ Retained(o, {})
    BY VoidedRetained
  <1>3. FrameType' /\ Heard'
    BY <1>2 DEF LogInv, LogType, FrameType, Heard
  <1>4. {<<n, 0>>} \in SUBSET (Nodes \X Nat) /\ store \in [Nodes -> Nat]
    BY DEF LogInv, LogType
  <1>5. ASSUME NEW m \in Nodes, NEW a \in Nat, <<m, a>> \in {<<n, 0>>} PROVE Doubt(m, a)'
    <2>1. m = n /\ n \notin Req(o)
      BY <1>1, <1>5, Unmonitored
    <2>2. Turned(o, {})
      BY <1>1, ObserveTurns DEF Weaker
    <2> QED
      BY <2>1, <2>2, UnrequiredDoubted
  <1> QED
    BY <1>1, <1>2, <1>3, <1>4, <1>5, ObserveKeeps

\* The user is active and nothing listens: the record is lost, unless a stream that
\* is deaf is not known to be.
LEMMA UnheardKeeps ==
  ASSUME LogInv, NEW n \in Nodes, Hearing(n) = {} \/ set.src # "logs",
         missed' = [missed EXCEPT ![n] = IF Unnoticed(n) THEN @ ELSE 0],
         UNCHANGED <<obs, prep, scan, store, panel, set, task, beat, loops>>
  PROVE  LogInv'
  <1>1. LogType'
    BY DEF LogInv, LogType, FrameType
  <1>2. Follows' /\ Heard'
    BY DEF LogInv, Follows, Known, Heard
  <1>3. Weaker(obs) /\ Turned(obs, {})
    BY SelfWeaker, SameTurned DEF LogInv
  <1>4. \A m \in Nodes, k \in Slots : Doomed(m, k)' => Doomed(m, k) /\ prep'[m][k].age = prep[m][k].age
    BY DEF Doomed
  <1>5. ASSUME NEW m \in Nodes PROVE missed'[m] = missed[m] \/ Doubt(m, missed[m])'
    <2>1. CASE m # n \/ Unnoticed(n)
      BY <2>1 DEF LogInv, LogType
    <2>2. CASE m = n /\ ~Unnoticed(n) /\ Hearing(n) = {}
      <3>1. \A k \in Slots : task[n][k] # "open"
        BY <2>2 DEF Hearing
      <3>2. ~(beat[n] <= Silence)
        BY <2>2, <3>1 DEF Unnoticed, LogInv, Heard
      <3>3. beat[n] > Silence
        BY <3>2, ConstantsAssumption DEF LogInv, LogType, FrameType
      <3> QED
        BY <2>2, <3>3 DEF Doubt
    <2>3. CASE m = n /\ set.src # "logs"
      <3>1. obs.set.src # "logs"
        BY <2>3 DEF LogInv, Follows
      <3> QED
        BY <3>1 DEF Doubt
    <2> QED
      BY <2>1, <2>2, <2>3
  <1>6. LossesKnown'
    BY <1>1, <1>3, <1>4, <1>5, LossesStay DEF LogInv
  <1> QED
    BY <1>1, <1>2, <1>6 DEF LogInv

LEMMA ActivityKeeps ==
  ASSUME LogInv, NEW n \in Nodes, NEW st \in {"dated", "undated"}, Activity(n, st)
  PROVE  LogInv'
  <1> DEFINE o == Configured
             heard == Hearing(n) # {} /\ set.src = "logs" /\ Monitors(o, n)
  <1>1. UNCHANGED <<panel, set, task, beat, loops>>
    BY DEF Activity
  <1>2. CASE heard
    BY <1>1, <1>2, DeliveredKeeps DEF Activity
  <1>3. CASE ~heard /\ Hearing(n) # {} /\ set.src = "logs"
    <2>1. ~Monitors(o, n) /\ prep' = Voided(o, {}) /\ Observe(o, {}, {}, store, {}, {<<n, 0>>})
      BY <1>3 DEF Activity
    <2> QED
      BY <1>1, <2>1, DroppedKeeps
  <1>4. CASE ~heard /\ (Hearing(n) = {} \/ set.src # "logs")
    <2>1. missed' = [missed EXCEPT ![n] = IF Unnoticed(n) THEN @ ELSE 0] /\ UNCHANGED <<obs, prep, scan, store>>
      BY <1>4 DEF Activity
    <2> QED
      BY <1>1, <1>4, <2>1, UnheardKeeps
  <1> QED
    BY <1>2, <1>3, <1>4

\* A preparation ends without being stored.
LEMMA FinishedFacts ==
  ASSUME LogInv, NEW n \in Nodes, NEW k \in Slots, NEW v \in [Nodes -> [Slots -> Records]],
         prep' = [v EXCEPT ![n][k] = NoRecord],
         \A m \in Nodes, j \in Slots :
           /\ v[m][j].st = prep[m][j].st /\ v[m][j].age = prep[m][j].age
           /\ ~v[m][j].good => ~prep[m][j].good \/ Doubt(m, 0)'
  PROVE  prep' \in [Nodes -> [Slots -> Records]] /\ \A o, gaps : Retained(o, gaps)
  <1>1. NoRecord \in Records /\ NoRecord.st = "none"
    BY DEF NoRecord, Records
  <1> HIDE DEF NoRecord
  <1>2. \A m \in Nodes, j \in Slots : prep'[m][j] = NoRecord \/ prep'[m][j] = v[m][j]
    OBVIOUS
  <1>3. prep' \in [Nodes -> [Slots -> Records]]
    BY <1>1
  <1>4. ASSUME NEW m \in Nodes, NEW j \in Slots, Doomed(m, j)', ~Doubt(m, 0)'
        PROVE  Doomed(m, j) /\ prep'[m][j].age = prep[m][j].age
    <2>1. prep'[m][j] = v[m][j]
      BY <1>1, <1>2, <1>4 DEF Doomed
    <2> QED
      BY <1>4, <2>1 DEF Doomed
  <1> QED
    BY <1>3, <1>4 DEF Retained

\* Observations in doubt hide nothing.
LEMMA InDoubtFacts ==
  ASSUME LogInv, NEW n \in Nodes, NEW o, o = InDoubt(n)
  PROVE  /\ Weaker(o) /\ o.set.src \in {"none", set.src} /\ (Known(o) => \A m \in o.excl : o.list[m] = "disabled")
         /\ o.unsure[n] = Window \/ o.all = Window
         /\ Renewed(o) = Renewed(obs) /\ Regenerated(o) = Regenerated(obs)
  <1> DEFINE unsure == IF n \in Req(obs) THEN [obs.unsure EXCEPT ![n] = Window] ELSE obs.unsure
             state == IF n \in Req(obs) THEN obs.state \cup {n} ELSE obs.state
             all == IF n \in Req(obs) THEN obs.all ELSE Window
  <1>0. obs \in Accounts /\ Window \in Nat
    BY ConstantsAssumption DEF LogInv, LogType
  <1>1. o = [obs EXCEPT !.unsure = unsure, !.state = state, !.all = all]
    BY <1>0 DEF InDoubt, Accounts
  <1>2. /\ unsure \in [Nodes -> 0 .. Window] /\ state \in SUBSET Nodes /\ all \in 0 .. Window
        /\ unsure[n] = Window \/ all = Window
        /\ obs.all <= all /\ \A m \in Nodes : obs.unsure[m] <= unsure[m]
    BY <1>0 DEF Accounts
  <1> HIDE DEF unsure, state, all
  <1>3. /\ o \in Accounts /\ o.unsure = unsure /\ o.all = all /\ o.set = obs.set /\ o.list = obs.list /\ o.excl = obs.excl
        /\ o.seen = obs.seen /\ o.floor = obs.floor /\ o.fleet = obs.fleet /\ o.node = obs.node
    BY <1>0, <1>1, <1>2 DEF Accounts
  <1>4. Renewed(o) = Renewed(obs) /\ Known(o) = Known(obs)
    BY <1>3, SameNodes
  <1>5. Weaker(obs)
    BY SelfWeaker DEF LogInv
  <1>6. Regenerated(o) = Regenerated(obs)
    BY <1>3, <1>4 DEF Regenerated
  <1>7. Weaker(o)
    BY <1>2, <1>3, <1>4, <1>5, <1>6 DEF Weaker
  <1> QED
    BY <1>2, <1>3, <1>4, <1>6, <1>7 DEF LogInv, Follows

\* A record is dropped, or committed.
LEMMA CommitKeeps == ASSUME LogInv, NEW n \in Nodes, NEW k \in Slots, Commit(n, k) PROVE LogInv'
  <1> DEFINE r == prep[n][k]
             kept == [store EXCEPT ![n] = Sooner(r.age, @)]
             v == Voided(obs, {n})
             o == InDoubt(n)
  <1>1. r # NoRecord /\ UNCHANGED <<panel, set, task, beat, loops>>
    BY DEF Commit
  <1>2. prep \in [Nodes -> [Slots -> Records]] /\ store \in [Nodes -> Nat]
    BY DEF LogInv, LogType, FrameType
  <1>3. r.st \in {"dated", "undated", "overtaken"} /\ r.age \in Nat
    BY <1>1, <1>2 DEF Records
  <1>4. kept \in [Nodes -> Nat]
    BY <1>2, <1>3 DEF Sooner
  <1>5. /\ Weaker(obs) /\ obs.set.src \in {"none", set.src}
        /\ Known(obs) => \A m \in obs.excl : obs.list[m] = "disabled"
    BY SelfWeaker DEF LogInv, Follows
  <1>6. /\ Weaker(o) /\ o.set.src \in {"none", set.src} /\ (Known(o) => \A m \in o.excl : o.list[m] = "disabled")
        /\ o.unsure[n] = Window \/ o.all = Window
        /\ Renewed(o) = Renewed(obs) /\ Regenerated(o) = Regenerated(obs)
    BY InDoubtFacts
  <1>7. \A m \in Nodes : beat'[m] <= Silence => beat[m] <= Silence \/ m \in {}
    BY <1>1
  <1>8. prep' \in [Nodes -> [Slots -> Records]] => FrameType' /\ Heard'
    BY <1>1 DEF LogInv, LogType, FrameType, Heard
  <1>e. {} \in SUBSET (Nodes \X Nat) /\ \A m \in Nodes, a \in Nat : <<m, a>> \in {} => Doubt(m, a)'
    OBVIOUS
  <1> HIDE DEF r, kept, v, o
  <1>f. ASSUME prep' = [prep EXCEPT ![n][k] = NoRecord]
        PROVE  prep' \in [Nodes -> [Slots -> Records]] /\ \A w, gaps : Retained(w, gaps)
    BY <1>2, <1>f, FinishedFacts
  <1>9. CASE /\ ~r.good \/ ~Monitors(obs, n)
             /\ prep' = [prep EXCEPT ![n][k] = NoRecord]
             /\ Observe(obs, {}, {}, store, {}, IF r.st = "overtaken" THEN {} ELSE {<<n, r.age>>})
    <2> DEFINE lost == IF r.st = "overtaken" THEN {} ELSE {<<n, r.age>>}
    <2>1. lost \in SUBSET (Nodes \X Nat)
      BY <1>3
    <2>2. ASSUME NEW m \in Nodes, NEW a \in Nat, <<m, a>> \in lost PROVE Doubt(m, a)'
      <3>1. m = n /\ a = r.age /\ r.st \in {"dated", "undated"}
        BY <1>3, <2>2
      <3>2. Turned(obs, {})
        BY <1>5, <1>9, ObserveTurns DEF Weaker
      <3>3. CASE ~Monitors(obs, n)
        BY <1>5, <3>1, <3>2, <3>3, Unmonitored, UnrequiredDoubted
      <3>4. CASE ~r.good
        <4>1. Doomed(n, k) /\ prep[n][k].age = a
          BY <3>1, <3>4 DEF Doomed, r
        <4>2. Doubt(n, a)
          <5>1. CASE a < Window
            BY <4>1, <5>1 DEF LogInv, LossesKnown
          <5>2. CASE ~(a < Window)
            BY <5>2, OldDoubted, ConstantsAssumption DEF LogInv
          <5> QED
            BY <5>1, <5>2
        <4>3. beat' \in [Nodes -> Nat]
          BY <1>1 DEF LogInv, LogType, FrameType
        <4>4. Doubt(n, a)'
          BY <1>5, <1>7, <3>2, <4>2, <4>3, DoubtStays DEF LogInv
        <4> QED
          BY <3>1, <4>4
      <3> QED
        BY <1>9, <3>3, <3>4
    <2>3. Observe(obs, {}, {}, store, {}, lost)
      BY <1>9
    <2> HIDE DEF lost
    <2> QED
      BY <1>1, <1>2, <1>5, <1>7, <1>8, <1>9, <1>f, <2>1, <2>2, <2>3, ObserveKeeps
  <1>10. CASE /\ prep' = [prep EXCEPT ![n][k] = NoRecord]
              /\ Observe(obs, {}, {}, kept, {}, {})
    BY <1>1, <1>4, <1>5, <1>7, <1>8, <1>10, <1>e, <1>f, ObserveKeeps
  <1>11. ASSUME prep' = [v EXCEPT ![n][k] = NoRecord], NEW s \in [Nodes -> Nat],
                NEW lost \in SUBSET {<<n, r.age>>}, Observe(o, {}, {n}, s, {}, lost)
         PROVE  LogInv'
    <2>1. Turned(o, {})
      BY <1>6, <1>11, ObserveTurns DEF Weaker
    <2>2. ASSUME NEW a \in Nat PROVE Doubt(n, a)'
      <3>1. obs'.unsure[n] = Window \/ obs'.all = Window
        BY <1>6, <2>1 DEF Turned
      <3>2. obs'.unsure[n] \in Nat /\ obs'.all \in Nat /\ Window \in Nat
        BY <2>1, ConstantsAssumption DEF Turned, Accounts
      <3> QED
        BY <3>1, <3>2 DEF Doubt
    <2>3. /\ v \in [Nodes -> [Slots -> Records]]
          /\ \A m \in Nodes, j \in Slots :
               /\ v[m][j].st = prep[m][j].st /\ v[m][j].age = prep[m][j].age
               /\ ~v[m][j].good => ~prep[m][j].good \/ m \in Void(obs, {n})
      BY VoidedFacts DEF LogInv, v
    <2>4. ASSUME NEW m \in Void(obs, {n}), m \in Nodes PROVE Doubt(m, 0)'
      <3>1. CASE m = n
        BY <2>2, <3>1
      <3>2. CASE m # n
        <4>1. m \in Void(o, {})
          BY <1>6, <2>4, <3>2 DEF Void
        <4> QED
          BY <1>6, <2>1, <2>4, <4>1, VoidDoubted DEF LogInv
      <3> QED
        BY <3>1, <3>2
    <2>5. prep' \in [Nodes -> [Slots -> Records]] /\ \A w, gaps : Retained(w, gaps)
      <3>1. \A m \in Nodes, j \in Slots :
              /\ v[m][j].st = prep[m][j].st /\ v[m][j].age = prep[m][j].age
              /\ ~v[m][j].good => ~prep[m][j].good \/ Doubt(m, 0)'
        BY <2>3, <2>4
      <3> QED
        BY <1>11, <2>3, <3>1, FinishedFacts
    <2>6. lost \in SUBSET (Nodes \X Nat)
      BY <1>3
    <2>7. \A m \in Nodes, a \in Nat : <<m, a>> \in lost => Doubt(m, a)'
      BY <2>2
    <2> QED
      BY <1>1, <1>6, <1>7, <1>8, <1>11, <2>5, <2>6, <2>7, ObserveKeeps
  <1>12. CASE /\ prep' = [v EXCEPT ![n][k] = NoRecord]
              /\ Observe(o, {}, {n}, store, {}, {<<n, r.age>>}) \/ Observe(o, {}, {n}, kept, {}, {})
    BY <1>2, <1>4, <1>11, <1>12
  <1> QED
    BY <1>9, <1>10, <1>12 DEF Commit, r, kept, v, o

\* A sample is taken.
LEMMA PopKeeps == ASSUME LogInv, Pop PROVE LogInv'
  <1> DEFINE o == Configured
  <1>1. /\ Weaker(o) /\ o.set = set /\ o.set.src \in {"none", set.src}
        /\ Known(o) => \A m \in o.excl : o.list[m] = "disabled"
    BY FromSettings
  <1>2. /\ prep' = Voided(o, {}) /\ obs' = o /\ UNCHANGED <<panel, set, task, beat, loops>>
        /\ store' = IF o.set # obs.set THEN [n \in Nodes |-> Window] ELSE store
        /\ missed' = IF o.set # obs.set THEN [n \in Nodes |-> Sooner(store[n], missed[n])] ELSE missed
    BY DEF Pop
  <1> HIDE DEF o
  <1>3. prep' \in [Nodes -> [Slots -> Records]] /\ Retained(o, {})
    BY <1>2, VoidedRetained
  <1>4. o \in Accounts
    BY <1>1 DEF Weaker
  <1>5. store' \in [Nodes -> Nat] /\ missed' \in [Nodes -> Nat]
    BY <1>2, ConstantsAssumption DEF LogInv, LogType, Sooner
  <1>6. LogType'
    BY <1>2, <1>3, <1>4, <1>5 DEF LogInv, LogType, FrameType
  <1>7. Follows' /\ Heard'
    BY <1>1, <1>2 DEF LogInv, Follows, Heard, Known
  <1>8. Turned(o, {})
    BY <1>2, <1>4 DEF Turned
  <1>9. ASSUME NEW m \in Nodes PROVE missed'[m] = missed[m] \/ Doubt(m, missed[m])'
    <2>1. CASE o.set = obs.set
      BY <1>2, <2>1
    <2>2. CASE o.set # obs.set
      <3>1. obs'.floor = 0 /\ missed'[m] \in Nat
        BY <1>1, <1>2, <1>5, <2>2 DEF Weaker
      <3> QED
        BY <3>1 DEF Doubt
    <2> QED
      BY <2>1, <2>2
  <1>10. LossesKnown'
    BY <1>1, <1>2, <1>3, <1>6, <1>8, <1>9, LossesStay DEF LogInv, Retained
  <1> QED
    BY <1>6, <1>7, <1>10 DEF LogInv

\* The settings are written.
LEMMA SettingsKeeps == ASSUME LogInv, Settings PROVE LogInv'
  <1>1. /\ set' \in SettingsTaken /\ UNCHANGED <<panel, task, beat, loops>>
        /\ prep' = [n \in Nodes |-> [k \in Slots |->
                      IF prep[n][k] = NoRecord THEN NoRecord ELSE [prep[n][k] EXCEPT !.st = "overtaken", !.good = FALSE]]]
    BY DEF Settings, SettingsTaken
  <1>2. ASSUME NEW n \in Nodes, NEW k \in Slots
        PROVE  prep'[n][k] \in Records /\ prep'[n][k].st \in {"none", "overtaken"}
    <2>1. prep[n][k] \in Records
      BY DEF LogInv, LogType, FrameType
    <2>2. NoRecord \in Records /\ NoRecord.st = "none"
      BY DEF NoRecord, Records
    <2>3. prep'[n][k] = NoRecord \/ prep'[n][k] = [prep[n][k] EXCEPT !.st = "overtaken", !.good = FALSE]
      BY <1>1
    <2> QED
      BY <2>1, <2>2, <2>3 DEF Records
  <1>3. prep' \in [Nodes -> [Slots -> Records]]
    BY <1>1, <1>2
  <1>4. \A n \in Nodes, k \in Slots : ~Doomed(n, k)'
    BY <1>2 DEF Doomed
  <1>5. CASE set'.src = set.src
    <2>1. UNCHANGED <<obs, store, missed>>
      BY <1>5 DEF Settings
    <2>2. LogType'
      BY <1>1, <1>3, <2>1 DEF LogInv, LogType, FrameType
    <2>3. Follows' /\ Heard'
      BY <1>1, <1>5, <2>1 DEF LogInv, Follows, Heard, Known
    <2>4. Weaker(obs) /\ Turned(obs, {})
      BY <2>1, SelfWeaker, SameTurned DEF LogInv
    <2>5. LossesKnown'
      BY <1>1, <1>4, <2>1, <2>2, <2>4, LossesStay DEF LogInv
    <2> QED
      BY <2>2, <2>3, <2>5 DEF LogInv
  <1>6. CASE set'.src # set.src
    <2>1. /\ obs' = [obs EXCEPT !.set.src = "none", !.floor = 0]
          /\ store' = [n \in Nodes |-> Window] /\ missed' = [n \in Nodes |-> Sooner(store[n], missed[n])]
      BY <1>6 DEF Settings
    <2>2. store' \in [Nodes -> Nat] /\ missed' \in [Nodes -> Nat]
      BY <2>1, ConstantsAssumption DEF LogInv, LogType, Sooner
    <2>3. /\ obs' \in Accounts /\ obs'.set.src = "none" /\ obs'.set.off = obs.set.off /\ obs'.floor = 0 /\ obs'.list = obs.list
          /\ obs'.excl = obs.excl
      BY <2>1 DEF LogInv, LogType, Accounts, SettingsTaken
    <2>4. LogType'
      BY <1>1, <1>3, <2>2, <2>3 DEF LogInv, LogType, FrameType
    <2>5. Follows' /\ Heard'
      BY <1>1, <2>3 DEF LogInv, Follows, Heard, Known
    <2>6. LossesKnown'
      BY <1>4, <2>3 DEF LossesKnown, Doubt
    <2> QED
      BY <2>4, <2>5, <2>6 DEF LogInv
  <1> QED
    BY <1>5, <1>6

\* A tick passes: what is in doubt ages no faster than what was lost.
LEMMA TickKeeps == ASSUME LogInv, Tick PROVE LogInv'
  <1> DEFINE lines == {n \in Nodes : Monitors(obs, n) /\ \E k \in Hearing(n) : prep[n][k] = NoRecord}
             gaps == {n \in lines : Older(beat[n]) > Silence}
             aged(a) == Sooner(a + 1, Window)
             left(d) == IF d > 0 THEN d - 1 ELSE 0
             node == [n \in Nodes |-> IF n \in gaps THEN 0 ELSE aged(obs.node[n])]
             unsure == [n \in Nodes |-> left(obs.unsure[n])]
             state == obs.state \cup (gaps \cap Req(obs))
             seen == IF Known(obs) THEN Older(obs.seen) ELSE obs.seen
  <1>1. /\ UNCHANGED <<panel, set, task, loops>>
        /\ beat' = [n \in Nodes |-> IF n \in lines THEN 0 ELSE Older(beat[n])]
        /\ prep' = [n \in Nodes |-> [k \in Slots |->
             IF prep[n][k] = NoRecord THEN NoRecord ELSE [prep[n][k] EXCEPT !.age = aged(@), !.good = @ /\ n \notin gaps]]]
        /\ store' = [n \in Nodes |-> aged(store[n])] /\ missed' = [n \in Nodes |-> aged(missed[n])]
        /\ obs' = [obs EXCEPT !.seen = seen, !.floor = aged(obs.floor), !.fleet = aged(obs.fleet), !.all = left(obs.all),
                              !.node = node, !.state = state, !.unsure = unsure]
    BY DEF Tick
  <1>c. Window \in Nat /\ Window > 0 /\ Silence \in Nat
    BY ConstantsAssumption
  <1>t. /\ beat \in [Nodes -> Nat] /\ prep \in [Nodes -> [Slots -> Records]] /\ obs \in Accounts
        /\ store \in [Nodes -> Nat] /\ missed \in [Nodes -> Nat]
    BY DEF LogInv, LogType, FrameType
  <1>2. \A a \in Nat : aged(a) \in Nat /\ aged(a) <= a + 1 /\ (aged(a) < Window => aged(a) = a + 1)
    BY <1>c DEF Sooner
  <1>3. \A d \in 0 .. Window : left(d) \in 0 .. Window /\ left(d) >= d - 1
    BY <1>c
  <1>4. \A n \in Nodes : Older(beat[n]) \in Nat /\ beat[n] <= Older(beat[n])
    BY <1>c, <1>t DEF Older
  <1>5. \A n \in Nodes : n \in lines => \E k \in Slots : task[n][k] = "open"
    BY DEF Hearing
  <1>6. \A n \in Nodes : n \in lines /\ Older(beat[n]) > Silence => n \in gaps
    OBVIOUS
  <1>6a. gaps \subseteq lines
    OBVIOUS
  <1> HIDE DEF lines, gaps, aged, left
  <1>7. node \in [Nodes -> Nat] /\ unsure \in [Nodes -> 0 .. Window] /\ state \in SUBSET Nodes /\ seen \in Nat
    BY <1>2, <1>3, <1>t, <1>c DEF Accounts, Req, Older
  <1>8. /\ \A n \in Nodes : node[n] <= obs.node[n] + 1 /\ unsure[n] >= obs.unsure[n] - 1 /\ (n \in gaps => node[n] = 0)
    BY <1>2, <1>3, <1>t DEF Accounts
  <1> HIDE DEF node, unsure, state, seen
  <1>9. /\ obs' \in Accounts /\ obs'.set = obs.set /\ obs'.list = obs.list /\ obs'.excl = obs.excl
        /\ obs'.floor = aged(obs.floor) /\ obs'.fleet = aged(obs.fleet) /\ obs'.all = left(obs.all)
        /\ obs'.node = node /\ obs'.unsure = unsure
    BY <1>1, <1>2, <1>3, <1>7, <1>t DEF Accounts
  <1>10. ASSUME NEW n \in Nodes, NEW k \in Slots
         PROVE  /\ prep'[n][k] \in Records
                /\ Doomed(n, k)' => /\ Doomed(n, k) \/ n \in gaps
                                    /\ prep'[n][k].age = aged(prep[n][k].age)
    <2> DEFINE r == prep[n][k]
               q == [r EXCEPT !.age = aged(@), !.good = @ /\ n \notin gaps]
    <2>1. r \in Records
      BY <1>t
    <2>2. prep'[n][k] = IF r = NoRecord THEN NoRecord ELSE q
      BY <1>1
    <2>3. NoRecord \in Records /\ NoRecord.st = "none"
      BY DEF NoRecord, Records
    <2> HIDE DEF r
    <2>4. r.age \in Nat /\ r.good \in BOOLEAN
      BY <2>1 DEF Records
    <2>5. aged(r.age) \in Nat
      BY <1>2, <2>4
    <2>6. q.st = r.st /\ q.age = aged(r.age) /\ q.good = (r.good /\ n \notin gaps)
      BY <2>1 DEF Records
    <2>7. r # NoRecord => q \in Records
      <3>1. q \in [st : {"none", "dated", "undated", "overtaken"}, age : Nat, good : BOOLEAN]
        BY <2>1, <2>5 DEF Records
      <3> QED
        BY <2>1, <2>6, <3>1 DEF Records
    <2> HIDE DEF q
    <2>8. prep'[n][k] \in Records
      BY <2>2, <2>3, <2>7
    <2>9. ASSUME Doomed(n, k)' PROVE (Doomed(n, k) \/ n \in gaps) /\ prep'[n][k].age = aged(r.age)
      <3>1. prep'[n][k] = q
        BY <2>2, <2>3, <2>9 DEF Doomed
      <3>2. q.st \in {"dated", "undated"} /\ ~q.good
        BY <2>9, <3>1 DEF Doomed
      <3>3. r.st \in {"dated", "undated"} /\ (~r.good \/ n \in gaps)
        BY <2>4, <2>6, <3>2
      <3> QED
        BY <2>6, <3>1, <3>3 DEF Doomed, r
    <2> QED
      BY <2>8, <2>9 DEF r
  <1>11. LogType'
    <2>1. beat' \in [Nodes -> Nat] /\ store' \in [Nodes -> Nat] /\ missed' \in [Nodes -> Nat]
      BY <1>1, <1>2, <1>4, <1>t
    <2>2. prep' \in [Nodes -> [Slots -> Records]]
      BY <1>1, <1>10
    <2> QED
      BY <1>1, <1>9, <2>1, <2>2 DEF LogInv, LogType, FrameType
  <1>12. Follows'
    BY <1>1, <1>9 DEF LogInv, Follows, Known
  <1>13. Heard'
    <2> SUFFICES ASSUME NEW n \in Nodes, beat'[n] <= Silence PROVE \E k \in Slots : task'[n][k] \in {"open", "deaf"}
      BY DEF Heard
    <2>1. CASE n \in lines
      BY <1>1, <1>5, <2>1
    <2>2. CASE n \notin lines
      <3>1. beat[n] <= Silence
        <4>1. Older(beat[n]) <= Silence
          BY <1>1, <2>2
        <4>2. beat[n] \in Nat /\ Older(beat[n]) \in Nat /\ beat[n] <= Older(beat[n]) /\ Silence \in Nat
          BY <1>4, <1>c, <1>t
        <4> QED
          BY <4>1, <4>2
      <3> QED
        BY <1>1, <3>1 DEF LogInv, Heard
    <2> QED
      BY <2>1, <2>2
  <1>14. ASSUME NEW n \in Nodes, NEW a \in Nat, Doubt(n, a) PROVE Doubt(n, a + 1)'
    <2>1. /\ obs.node[n] \in Nat /\ obs.floor \in Nat /\ obs.fleet \in Nat
          /\ obs.unsure[n] \in 0 .. Window /\ obs.all \in 0 .. Window /\ beat[n] \in Nat
      BY <1>t DEF Accounts
    <2>2. node[n] \in Nat /\ unsure[n] \in 0 .. Window
      BY <1>7
    <2>3. CASE beat[n] > Silence
      <3>1. CASE n \in gaps
        BY <1>8, <1>9, <3>1 DEF Doubt
      <3>2. CASE n \notin gaps
        <4>1. Older(beat[n]) > Silence /\ n \notin lines
          BY <1>4, <1>6, <1>c, <2>1, <2>3, <3>2
        <4> QED
          BY <1>1, <4>1 DEF Doubt
      <3> QED
        BY <3>1, <3>2
    <2>4. CASE obs.node[n] <= a
      <3>1. node[n] <= a + 1
        BY <1>8, <2>1, <2>2, <2>4
      <3> QED
        BY <1>9, <3>1 DEF Doubt
    <2>5. CASE obs.floor <= a \/ obs.fleet <= a
      <3>1. aged(obs.floor) <= a + 1 \/ aged(obs.fleet) <= a + 1
        BY <1>2, <2>1, <2>5
      <3> QED
        BY <1>9, <3>1 DEF Doubt
    <2>6. CASE obs.unsure[n] + a >= Window
      <3>1. unsure[n] + (a + 1) >= Window
        BY <1>8, <1>c, <2>1, <2>2, <2>6
      <3> QED
        BY <1>9, <3>1 DEF Doubt
    <2>7. CASE obs.all + a >= Window
      <3>1. left(obs.all) \in Int /\ left(obs.all) >= obs.all - 1
        BY <1>3, <2>1
      <3>2. left(obs.all) + (a + 1) >= Window
        BY <1>c, <2>1, <2>7, <3>1
      <3> QED
        BY <1>9, <3>2 DEF Doubt
    <2>8. CASE n \notin Req(obs) \/ obs.set.src # "logs"
      BY <1>9, <2>8 DEF Doubt, Req
    <2> QED
      BY <1>14, <2>3, <2>4, <2>5, <2>6, <2>7, <2>8 DEF Doubt
  <1>15. ASSUME NEW n \in Nodes, missed'[n] < Window PROVE Doubt(n, missed[n])'
    <2>1. missed'[n] = missed[n] + 1 /\ missed[n] \in Nat
      BY <1>1, <1>2, <1>15, <1>t
    <2>2. Doubt(n, missed[n])
      BY <1>15, <1>c, <2>1 DEF LogInv, LossesKnown
    <2>3. PICK a \in Nat : a = missed[n]
      BY <2>1
    <2>4. Doubt(n, a)
      BY <2>2, <2>3
    <2>5. Doubt(n, a + 1)'
      BY <1>14, <2>4
    <2> QED
      BY <2>1, <2>3, <2>5 DEF Doubt
  <1>16. ASSUME NEW n \in Nodes, NEW k \in Slots, Doomed(n, k)', prep'[n][k].age < Window
         PROVE  Doubt(n, prep[n][k].age)'
    <2>1. prep[n][k].age \in Nat
      BY <1>t DEF Records
    <2>2. prep'[n][k].age = prep[n][k].age + 1
      BY <1>2, <1>10, <1>16, <2>1
    <2>3. CASE n \in gaps
      <3>1. obs'.node[n] = 0
        BY <1>8, <1>9, <2>3
      <3> QED
        BY <2>1, <2>2, <3>1 DEF Doubt
    <2>4. CASE Doomed(n, k)
      <3>1. PICK a \in Nat : a = prep[n][k].age
        BY <2>1
      <3>2. Doubt(n, a)
        BY <1>16, <1>c, <2>1, <2>2, <2>4, <3>1 DEF LogInv, LossesKnown
      <3>3. Doubt(n, a + 1)'
        BY <1>14, <3>2
      <3> QED
        BY <2>2, <3>1, <3>3 DEF Doubt
    <2> QED
      BY <1>10, <1>16, <2>3, <2>4
  <1>17. LossesKnown'
    BY <1>15, <1>16 DEF LossesKnown
  <1> QED
    BY <1>11, <1>12, <1>13, <1>17 DEF LogInv

LEMMA LogStep == LogInv /\ [Next]_vars => LogInv'
  <1> SUFFICES ASSUME LogInv, [Next]_vars PROVE LogInv'
    OBVIOUS
  <1>1. CASE UNCHANGED vars
    BY <1>1, QuietKeeps DEF vars, LogInv, LogType, FrameType
  <1>2. ASSUME NEW n \in Nodes, NEW k \in Slots, Stream(n, k) PROVE LogInv'
    BY <1>2, OpenKeeps, LeaveKeeps, RecheckKeeps, CommitKeeps DEF Stream
  <1>3. ASSUME NEW n \in Nodes, NEW k \in Slots, Refused(n, k) \/ Close(n, k) \/ GoDeaf(n, k) PROVE LogInv'
    BY <1>3, RefusedKeeps, CloseKeeps, DeafKeeps
  <1>4. ASSUME NEW l \in {"cancel", "add", "refresh"}, ReadList(l) \/ ListFails(l) PROVE LogInv'
    BY <1>4, ReadKeeps, FailKeeps
  <1>5. CASE \/ CancelPass \/ AddPass \/ RefreshStop \/ RefreshStart \/ Pop \/ Clear \/ EndScan \/ Settings \/ Tick
    BY <1>5, CancelKeeps, AddKeeps, StopKeeps, StartKeeps, PopKeeps, JudgeKeeps, SettingsKeeps, TickKeeps
  <1> QED
    BY <1>1, <1>2, <1>3, <1>4, <1>5, ActivityKeeps, NodeKeeps DEF Next

\* A complete sample leaves no room for doubt.
LEMMA NoDoubt ==
  ASSUME LogInv, Complete, NEW n \in scan.req
  PROVE  missed[n] >= Window
  <1>1. n \in Nodes /\ n \in Req(obs) /\ Ready(obs, n) /\ Usable(obs)
    BY DEF Complete, Req
  <1>2. /\ beat[n] \in Nat /\ missed[n] \in Nat /\ Window \in Nat /\ Silence \in Nat
        /\ obs.node[n] \in Nat /\ obs.floor \in Nat /\ obs.fleet \in Nat /\ obs.unsure[n] \in Nat /\ obs.all \in Nat
    BY <1>1, ConstantsAssumption DEF LogInv, LogType, FrameType, Accounts
  <1>3. /\ beat[n] <= Silence /\ obs.unsure[n] = 0 /\ obs.node[n] >= Window
        /\ obs.set.src = "logs" /\ obs.all = 0 /\ obs.floor >= Window /\ obs.fleet >= Window
    BY <1>1 DEF Ready, Usable
  <1>4. missed[n] < Window => Doubt(n, missed[n])
    BY <1>1 DEF LogInv, LossesKnown
  <1> QED
    BY <1>1, <1>2, <1>3, <1>4 DEF Doubt

\* A warning is taken back for absence only if nothing was lost.
THEOREM NothingWasLost == Spec => AbsenceProven
  <1>1. LogInv => [Clear => \A n \in scan.req : missed[n] >= Window]_vars
    BY NoDoubt DEF Clear
  <1> QED
    BY <1>1, LogBegin, LogStep, PTL DEF Spec, AbsenceProven
=============================================================================
