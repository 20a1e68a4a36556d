--------------------------- MODULE UsageScanProofs ---------------------------
(***************************************************************************)
(* What holds of UsageScan for every set of users, every rules, intervals  *)
(* and events: nobody is punished before the scans the record promised,    *)
(* verdicts hold when they are carried out, and, unless a failed save of   *)
(* the records may swallow a clearing, cleared records stay away.          *)
(***************************************************************************)
EXTENDS UsageScan, FiniteSetTheorems, WellFoundedInduction, TLAPS

Policies == {"limited", "raised", "exempt"}

PCs == {"idle", "facts", "report", "persist", "remove", "main", "added", "settle", "expire",
        "verify", "punish"}

Cycles == [pc : PCs, current : BOOLEAN, rule : Rules \cup {0}, sample : [Users -> AllSamples],
           pol : [Users -> Policies], prot : SUBSET Users, out : SUBSET Users, todo : SUBSET Users,
           rest : SUBSET Users, cands : SUBSET Users, who : SUBSET Users, from : {"idle", "persist", "main"}, started : BOOLEAN]

TypeOK ==
  /\ warnings \in [Users -> Record]
  /\ file \in [Users -> Record]
  /\ writing \in [by : {"nobody", "cycle", "operator"}, data : [Users -> Record]]
  /\ want \subseteq {"cycle", "operator"}
  /\ setting \in Rules /\ used \in Rules
  /\ policy \in [Users -> Policies]
  /\ paused \in BOOLEAN
  /\ since \in 0..Grown
  /\ elapsed \in Nat
  /\ cyc \in Cycles

\* The settings adopted are those of a cycle, and a cycle under way has some.
RuleTaken == cyc.pc # "idle" => cyc.rule \in Rules

\* A sentence has one user.
OneWho == cyc.pc \in {"added", "verify", "punish"} => \E u \in Users : cyc.who = {u}

\* The mutation of a punishment begins in the punishment.
Unstarted == cyc.pc # "punish" => ~cyc.started

\* What is current about a cycle: monitoring goes on under the settings it began with.
CycleCurrent == cyc.pc # "idle" /\ cyc.current => ~paused /\ setting = cyc.rule

CycleInv == TypeOK /\ RuleTaken /\ OneWho /\ Unstarted /\ CycleCurrent

-----------------------------------------------------------------------------

NotNegative(n) == IF n < 0 THEN 0 ELSE n

\* A record is at least as old as the gaps between the scans it counts, and the time
\* since the last of them.  (A corrected clock makes that time negative.)
Spaced(rec) == rec.age >= UpTo(Grown, (rec.n - 1) * MinGap + NotNegative(rec.last))

GapInv ==
  \A u \in Users : Spaced(warnings[u]) /\ Spaced(file[u]) /\ Spaced(writing.data[u])

-----------------------------------------------------------------------------

Young(recs) == \A u \in Users : recs[u].n > 0 => recs[u].age <= since

\* Who has a save written waits for it.
Awaited == writing # NoWrite => writing.by \in want

\* No record in memory is older than the last clearing.  Neither is one in the file, nor
\* one about to be written, unless the operator still waits for the save.
ClearInv ==
  /\ Awaited
  /\ Young(warnings)
  /\ "operator" \notin want => Young(file)
  /\ writing # NoWrite /\ ("operator" \notin want \/ writing.by = "operator") => Young(writing.data)

\* A clearing is not swallowed by a save that fails.
ClearingsSaved == "clear" \notin Events \/ "disk" \notin Events

\* Without clearings nothing has ever been cleared.
NeverCleared == "clear" \notin Events => since = Grown

-----------------------------------------------------------------------------
(* Constants.                                                              *)

\* A finite set of natural numbers has a greatest element: some set of the
\* elements above one of them is least.
LEMMA Greatest ==
  ASSUME NEW S \in SUBSET Nat, S # {}, IsFiniteSet(S) PROVE \E m \in S : \A s \in S : s <= m
  <1> DEFINE Above(r) == {s \in S : s > r}
             Sets == {Above(r) : r \in S}
             R == StrictSubsetOrdering(S)
  <1>1. \A r \in S : Above(r) \in FiniteSubsetsOf(S)
    BY FS_Subset DEF FiniteSubsetsOf
  <1>2. Sets \subseteq FiniteSubsetsOf(S) /\ Sets # {}
    BY <1>1
  <1>3. PICK x \in Sets : \A y \in Sets : ~(<<y, x>> \in R)
    <2> HIDE DEF Sets, R
    <2>1. IsWellFoundedOn(R, FiniteSubsetsOf(S))
      BY FS_StrictSubsetOrderingWellFounded DEF R
    <2>2. QED
      BY <1>2, <2>1, WFMin
  <1>4. PICK m \in S : x = Above(m)
    OBVIOUS
  <1>5. ASSUME NEW s \in S, ~(s <= m) PROVE FALSE
    <2>1. s \in Nat /\ m \in Nat /\ s > m
      BY <1>5
    <2>2. Above(s) \subseteq Above(m) /\ s \in Above(m) /\ s \notin Above(s)
      <3>1. ASSUME NEW r \in S, r > s PROVE r > m
        BY <2>1, <3>1
      <3>2. ~(s > s)
        BY <2>1
      <3>3. QED
        BY <2>1, <3>1, <3>2
    <2>3. Above(s) \in Sets /\ <<Above(s), Above(m)>> \in R
      BY <2>2 DEF StrictSubsetOrdering
    <2>4. QED
      BY <1>3, <1>4, <2>3
  <1>6. QED
    BY <1>5

\* A product grows with a factor.
LEMMA Products == ASSUME NEW k \in Nat, NEW a \in Nat, NEW b \in Nat, a <= b PROVE k * a <= k * b
  <1>1. PICK d \in Nat : b = a + d
    <2>1. b - a \in Nat /\ b = a + (b - a)
      OBVIOUS
    <2>2. QED
      BY <2>1
  <1>2. k * d \in Nat /\ k * a \in Nat /\ k * b = k * a + k * d
    BY <1>1
  <1>3. QED
    BY <1>2

LEMMA ConstantFacts ==
  /\ Rules \subseteq Nat \ {0} /\ MaxRule \in Rules /\ (\A r \in Rules : r <= MaxRule)
  /\ Interval \in Nat /\ MinGap \in Nat /\ Longest \in Nat /\ Grown \in Nat
  <1>1. MaxRule \in Rules /\ \A r \in Rules : r <= MaxRule
    BY ConstantsAssumption, Greatest DEF MaxRule
  <1>2. MaxRule \in Nat /\ MaxRule - 1 \in Nat /\ Interval \in Nat
    BY <1>1, ConstantsAssumption
  <1>3. MinGap \in Nat
    BY <1>2 DEF MinGap
  <1>4. Longest \in Nat
    BY <1>2 DEF Longest
  <1>5. Grown \in Nat
    BY <1>2, <1>3 DEF Grown
  <1>6. QED
    BY <1>1, <1>2, <1>3, <1>4, <1>5, ConstantsAssumption

\* A monitoring period is no longer than the longest, a streak no older than a full one.
LEMMA PeriodType == ASSUME used \in Rules PROVE Period \in 0..Longest
  <1>1. Period \in Nat /\ Longest \in Nat /\ Period <= Longest
    BY ConstantFacts, Products DEF Period, Longest
  <1>2. QED
    BY <1>1

LEMMA StreakAge ==
  ASSUME NEW n \in 0..MaxRule, n > 0
  PROVE  (n - 1) * MinGap \in 0..Grown /\ \A r \in 1..n : (r - 1) * MinGap <= (n - 1) * MinGap
  <1>0. MaxRule \in Nat /\ MinGap \in Nat /\ Grown \in Nat /\ n \in Nat /\ n <= MaxRule
    BY ConstantFacts
  <1>1. (n - 1) * MinGap \in Nat
    BY <1>0
  <1>2. MinGap * (n - 1) <= MinGap * (MaxRule - 1)
    BY <1>0, Products
  <1>3. ASSUME NEW r \in 1..n PROVE MinGap * (r - 1) <= MinGap * (n - 1)
    BY <1>0, Products
  <1>4. \A r \in 1..n : (r - 1) * MinGap <= (n - 1) * MinGap
    BY <1>0, <1>3
  <1>5. (n - 1) * MinGap <= Grown
    BY <1>0, <1>2 DEF Grown
  <1>6. QED
    BY <1>0, <1>1, <1>4, <1>5

-----------------------------------------------------------------------------
(* Records.                                                                *)

\* What add_warning makes of a record keeps its type and is no older than the scans it
\* counts.
LEMMA RecountFacts ==
  ASSUME used \in Rules, NEW rec \in Record, rec.n > 0, Spaced(rec)
  PROVE  Recount(rec) \in Record /\ Spaced(Recount(rec)) /\ Recount(rec).n > 0 /\ Recount(rec).age = rec.age
  <1> DEFINE new == Recount(rec)
             streak == (rec.n - 1) * MinGap
  <1>0. /\ MaxRule \in Nat \ {0} /\ MinGap \in Nat /\ Grown \in Nat /\ Longest \in Nat /\ Period \in 0..Longest
        /\ rec.n \in 1..MaxRule /\ rec.last \in -1..Longest + 1 /\ rec.age \in 0..Grown /\ rec.rule \in Rules \cup {0}
        /\ rec.left \in 0..Longest + 1
    BY ConstantFacts, PeriodType DEF Record
  <1>1. PICK n, last : /\ new = [n |-> n, last |-> last, left |-> Period, rule |-> rec.rule, age |-> rec.age]
                       /\ \/ n = 1 /\ last = 0
                          \/ n = UpTo(MaxRule, rec.n + 1) /\ last = 0 /\ rec.last >= MinGap
                          \/ n = rec.n /\ last = rec.last
    <2> DEFINE restarts == rec.last < 0 \/ rec.last > Period
               counts == ~restarts /\ rec.last >= MinGap
    <2>1. CASE restarts
      <3>1. new = [n |-> 1, last |-> 0, left |-> Period, rule |-> rec.rule, age |-> rec.age]
        <4>1. new = [rec EXCEPT !.n = 1, !.last = 0, !.left = Period]
          BY <2>1 DEF Recount
        <4>2. rec \in Record
          OBVIOUS
        <4> HIDE DEF new
        <4>3. QED
          BY <4>1, <4>2 DEF Record
      <3>2. QED
        BY <3>1
    <2>2. CASE counts
      <3>1. new = [n |-> UpTo(MaxRule, rec.n + 1), last |-> 0, left |-> Period, rule |-> rec.rule, age |-> rec.age]
        <4>1. new = [rec EXCEPT !.n = UpTo(MaxRule, rec.n + 1), !.last = 0, !.left = Period]
          BY <2>2 DEF Recount
        <4>2. rec \in Record
          OBVIOUS
        <4> HIDE DEF new
        <4>3. QED
          BY <4>1, <4>2 DEF Record
      <3>2. QED
        BY <2>2, <3>1
    <2>3. CASE ~restarts /\ ~counts
      <3>1. new = [n |-> rec.n, last |-> rec.last, left |-> Period, rule |-> rec.rule, age |-> rec.age]
        <4>1. new = [rec EXCEPT !.n = rec.n, !.last = rec.last, !.left = Period]
          BY <2>3 DEF Recount
        <4>2. rec \in Record
          OBVIOUS
        <4> HIDE DEF new
        <4>3. QED
          BY <4>1, <4>2 DEF Record
      <3>2. QED
        BY <3>1
    <2>4. QED
      BY <2>1, <2>2, <2>3
  <1>2. n \in 1..MaxRule /\ last \in -1..Longest + 1
    BY <1>0, <1>1 DEF UpTo
  <1>3. new \in Record
    BY <1>0, <1>1, <1>2 DEF Record
  <1>4. streak \in 0..Grown /\ rec.age >= UpTo(Grown, streak + NotNegative(rec.last))
    BY <1>0, StreakAge DEF Spaced
  <1>5. rec.age >= UpTo(Grown, (n - 1) * MinGap + NotNegative(last))
    <2>1. CASE n = 1 /\ last = 0
      BY <1>0, <2>1 DEF UpTo, NotNegative
    <2>2. CASE n = rec.n /\ last = rec.last
      BY <1>4, <2>2
    <2>3. CASE n = UpTo(MaxRule, rec.n + 1) /\ last = 0 /\ rec.last >= MinGap
      <3>1. (n - 1) * MinGap <= streak + MinGap
        <4>1. CASE n = rec.n
          BY <1>0, <1>4, <4>1
        <4>2. CASE n = rec.n + 1
          <5>1. (n - 1) * MinGap = streak + MinGap
            BY <1>0, <4>2
          <5>2. QED
            BY <1>0, <1>4, <5>1
        <4>3. QED
          BY <1>0, <2>3, <4>1, <4>2 DEF UpTo
      <3>2. (n - 1) * MinGap \in Nat /\ NotNegative(rec.last) >= MinGap /\ NotNegative(last) = 0
        BY <1>0, <1>2, <2>3 DEF NotNegative
      <3>3. PICK p \in Nat : p = (n - 1) * MinGap
        BY <3>2
      <3>4. NotNegative(rec.last) \in Nat
        BY <1>0 DEF NotNegative
      <3>5. p <= streak + NotNegative(rec.last)
        BY <1>0, <1>4, <3>1, <3>2, <3>3, <3>4
      <3>6. rec.age >= UpTo(Grown, p)
        BY <1>0, <1>4, <3>4, <3>5 DEF UpTo
      <3>7. QED
        BY <3>2, <3>3, <3>6
    <2>4. QED
      BY <1>1, <2>1, <2>2, <2>3
  <1>6. QED
    BY <1>0, <1>1, <1>2, <1>3, <1>5 DEF Spaced

LEMMA NewRecordFacts ==
  ASSUME used \in Rules PROVE NewRecord \in Record /\ Spaced(NewRecord) /\ NewRecord.n = 1 /\ NewRecord.age = 0
  <1>1. MaxRule \in Nat \ {0} /\ MinGap \in Nat /\ Grown \in Nat /\ Longest \in Nat /\ Period \in 0..Longest
    BY ConstantFacts, PeriodType
  <1>2. NewRecord \in Record
    BY <1>1 DEF NewRecord, Record
  <1>3. Spaced(NewRecord)
    BY <1>1 DEF NewRecord, Spaced, UpTo, NotNegative
  <1>4. QED
    BY <1>2, <1>3 DEF NewRecord

LEMMA NoneFacts == None \in Record /\ Spaced(None) /\ None.n = 0 /\ None.age = 0
  <1>1. MaxRule \in Nat \ {0} /\ MinGap \in Nat /\ Grown \in Nat /\ Longest \in Nat
    BY ConstantFacts
  <1>2. None \in Record
    BY <1>1 DEF None, Record
  <1>3. Spaced(None)
    BY <1>1 DEF None, Spaced, UpTo, NotNegative
  <1>4. QED
    BY <1>2, <1>3 DEF None

\* Time, and a clock that is corrected, leave the counts alone; no record gets younger.
LEMMA AgedFacts ==
  ASSUME NEW recs \in [Users -> Record], NEW u \in Users
  PROVE  /\ Aged(recs)[u] \in Record
         /\ Aged(recs)[u].n = recs[u].n
         /\ recs[u].n > 0 => Aged(recs)[u].age = UpTo(Grown, recs[u].age + 1)
         /\ Spaced(recs[u]) => Spaced(Aged(recs)[u])
  <1> DEFINE rec == recs[u]
  <1>0. /\ MaxRule \in Nat \ {0} /\ MinGap \in Nat /\ Grown \in Nat /\ Longest \in Nat
        /\ rec \in Record /\ rec.n \in 0..MaxRule /\ rec.last \in -1..Longest + 1 /\ rec.age \in 0..Grown
        /\ rec.rule \in Rules \cup {0} /\ rec.left \in 0..Longest + 1
    BY ConstantFacts DEF Record
  <1>1. CASE rec.n = 0
    <2>1. Aged(recs)[u] = None
      BY <1>1 DEF Aged
    <2>2. QED
      BY <1>1, <2>1, NoneFacts
  <1>2. CASE rec.n # 0
    <2>1. PICK left \in 0..Longest + 1 : left = IF rec.left > 0 THEN rec.left - 1 ELSE 0
      BY <1>0
    <2>2. PICK last \in -1..Longest + 1 : last = UpTo(Longest + 1, rec.last + 1)
      BY <1>0 DEF UpTo
    <2>3. PICK age \in 0..Grown : age = UpTo(Grown, rec.age + 1)
      BY <1>0 DEF UpTo
    <2>4. Aged(recs)[u] = [n |-> rec.n, last |-> last, left |-> left, rule |-> rec.rule, age |-> age]
      BY <1>0, <1>2, <2>1, <2>2, <2>3 DEF Aged, Record
    <2>5. Aged(recs)[u] \in Record
      BY <1>0, <2>4 DEF Record
    <2>6. Spaced(rec) => age >= UpTo(Grown, (rec.n - 1) * MinGap + NotNegative(last))
      <3>1. PICK p \in Nat : p = (rec.n - 1) * MinGap
        BY <1>0, <1>2, StreakAge
      <3>2. NotNegative(last) \in Nat /\ NotNegative(rec.last) \in Nat /\ NotNegative(last) <= NotNegative(rec.last) + 1
        BY <1>0, <2>2 DEF UpTo, NotNegative
      <3>3. Spaced(rec) => rec.age >= UpTo(Grown, p + NotNegative(rec.last))
        BY <3>1 DEF Spaced
      <3>4. Spaced(rec) => age >= UpTo(Grown, p + NotNegative(last))
        BY <1>0, <2>3, <3>2, <3>3 DEF UpTo
      <3>5. QED
        BY <3>1, <3>4
    <2>7. QED
      BY <2>3, <2>4, <2>5, <2>6 DEF Spaced
  <1>3. QED
    BY <1>1, <1>2

LEMMA SetBackFacts ==
  ASSUME NEW recs \in [Users -> Record], NEW u \in Users, recs[u].last >= 0
  PROVE  /\ SetBack(recs)[u] \in Record
         /\ SetBack(recs)[u].n = recs[u].n
         /\ recs[u].n > 0 => SetBack(recs)[u].age = recs[u].age
         /\ Spaced(recs[u]) => Spaced(SetBack(recs)[u])
  <1> DEFINE rec == recs[u]
  <1>0. /\ MaxRule \in Nat \ {0} /\ MinGap \in Nat /\ Grown \in Nat /\ Longest \in Nat
        /\ rec \in Record /\ rec.n \in 0..MaxRule /\ rec.last \in 0..Longest + 1 /\ rec.age \in 0..Grown
        /\ rec.rule \in Rules \cup {0} /\ rec.left \in 0..Longest + 1
    BY ConstantFacts DEF Record
  <1>1. CASE rec.n = 0
    <2>1. SetBack(recs)[u] = None
      BY <1>1 DEF SetBack
    <2>2. QED
      BY <1>1, <2>1, NoneFacts
  <1>2. CASE rec.n # 0
    <2>1. PICK left \in 0..Longest + 1 : left = UpTo(Longest + 1, rec.left + 1)
      BY <1>0 DEF UpTo
    <2>2. PICK last \in -1..Longest + 1 : last = rec.last - 1
      BY <1>0
    <2>3. SetBack(recs)[u] = [n |-> rec.n, last |-> last, left |-> left, rule |-> rec.rule, age |-> rec.age]
      BY <1>0, <1>2, <2>1, <2>2 DEF SetBack, Record
    <2>4. SetBack(recs)[u] \in Record
      BY <1>0, <2>3 DEF Record
    <2>5. Spaced(rec) => rec.age >= UpTo(Grown, (rec.n - 1) * MinGap + NotNegative(last))
      <3>1. PICK p \in Nat : p = (rec.n - 1) * MinGap
        BY <1>0, <1>2, StreakAge
      <3>2. NotNegative(last) \in Nat /\ NotNegative(rec.last) \in Nat /\ NotNegative(last) <= NotNegative(rec.last)
        BY <1>0, <2>2 DEF NotNegative
      <3>3. Spaced(rec) => rec.age >= UpTo(Grown, p + NotNegative(rec.last))
        BY <3>1 DEF Spaced
      <3>4. Spaced(rec) => rec.age >= UpTo(Grown, p + NotNegative(last))
        BY <1>0, <3>2, <3>3 DEF UpTo
      <3>5. QED
        BY <3>1, <3>4
    <2>6. QED
      BY <2>3, <2>4, <2>5 DEF Spaced
  <1>3. QED
    BY <1>1, <1>2

-----------------------------------------------------------------------------
(* Steps.                                                                  *)

\* A step of the cycle takes a record away, recounts it or makes a new one.
Moved(v) == \/ warnings'[v] \in {warnings[v], None, NewRecord}
            \/ Recorded(v) /\ warnings'[v] = Recount(warnings[v])

CycleMoves == /\ file' = file /\ writing' = writing /\ since' = since
              /\ want \subseteq want' /\ want' \subseteq want \cup {"cycle"}
              /\ warnings' = [v \in Users |-> warnings'[v]]
              /\ \A v \in Users : Moved(v)

Unrecorded == warnings' = warnings /\ want' \in {want, want \cup {"cycle"}}

LEMMA CycleRecords == ASSUME TypeOK, Cycle PROVE CycleMoves
  <1>1. warnings = [v \in Users |-> warnings[v]]
    BY DEF TypeOK
  <1>2. CASE Unrecorded /\ UNCHANGED <<file, writing, since>>
    BY <1>1, <1>2 DEF CycleMoves, Moved, Unrecorded
  <1>3. ASSUME NEW u \in Users, Moved(u), \A v \in Users \ {u} : warnings'[v] = warnings[v],
               warnings' = [v \in Users |-> warnings'[v]],
               file' = file /\ writing' = writing /\ since' = since, want' \in {want, want \cup {"cycle"}}
        PROVE  CycleMoves
    <2>1. ASSUME NEW v \in Users PROVE Moved(v)
      BY <1>3, <2>1 DEF Moved
    <2>2. QED
      BY <1>3, <2>1 DEF CycleMoves
  <1>4. CASE Begin \/ ReadFacts \/ Report \/ Abandon \/ EndPersist \/ EndRemove \/ EndMain \/ EndSettle \/ Finish
    BY <1>2, <1>4 DEF Begin, ReadFacts, Report, Abandon, EndPersist, EndRemove, EndMain, EndSettle, Finish,
                      recordVars, Unrecorded
  <1>5. ASSUME NEW u \in Users, NEW ok \in Read,
               Persist(u, ok) \/ Refuse(u, ok) \/ Escape(u, ok) \/ ScanFails(u) \/ Added(u) \/ Verify(u) \/ Effect(u)
        PROVE  CycleMoves
    BY <1>2, <1>5 DEF Persist, Refuse, Escape, ScanFails, Added, Verify, Effect, recordVars, Unrecorded
  <1>6. ASSUME NEW u \in Users, NEW ok \in Read, Remove(u, ok) \/ Settle(u, ok) \/ Expire(u, ok) PROVE CycleMoves
    <2>1. Unrecorded \/ (warnings' = [warnings EXCEPT ![u] = None] /\ want' \in {want, want \cup {"cycle"}})
      BY <1>6 DEF Remove, Settle, Expire, Unrecorded
    <2>2. file' = file /\ writing' = writing /\ since' = since
      BY <1>6 DEF Remove, Settle, Expire
    <2>3. CASE warnings' = [warnings EXCEPT ![u] = None] /\ want' \in {want, want \cup {"cycle"}}
      <3>1. Moved(u)
        BY <1>1, <2>3 DEF Moved
      <3>2. QED
        BY <1>1, <1>3, <2>2, <2>3, <3>1
    <2>4. QED
      BY <1>2, <2>1, <2>2, <2>3
  <1>7. ASSUME NEW u \in Users, Scan(u) PROVE CycleMoves
    <2>1. \/ Unrecorded
          \/ /\ warnings' = [warnings EXCEPT ![u] = IF Recorded(u) THEN Recount(warnings[u]) ELSE NewRecord]
             /\ want' = want \cup {"cycle"}
      BY <1>7 DEF Scan, Unrecorded
    <2>2. file' = file /\ writing' = writing /\ since' = since
      BY <1>7 DEF Scan
    <2>3. CASE /\ warnings' = [warnings EXCEPT ![u] = IF Recorded(u) THEN Recount(warnings[u]) ELSE NewRecord]
               /\ want' = want \cup {"cycle"}
      <3>1. Moved(u)
        BY <1>1, <2>3 DEF Moved
      <3>2. QED
        BY <1>1, <1>3, <2>2, <2>3, <3>1
    <2>4. QED
      BY <1>2, <2>1, <2>2, <2>3
  <1>8. ASSUME NEW u \in Users, NEW result, Punished(u, result) PROVE CycleMoves
    <2>1. /\ warnings' = [warnings EXCEPT ![u] = None] /\ want' \in {want, want \cup {"cycle"}}
          /\ file' = file /\ writing' = writing /\ since' = since
      BY <1>8 DEF Punished
    <2>2. Moved(u)
      BY <1>1, <2>1 DEF Moved
    <2>3. QED
      BY <1>1, <1>3, <2>1, <2>2
  <1>9. TRUE \in Read
    BY DEF Read
  <1>10. QED
    BY <1>4, <1>5, <1>6, <1>7, <1>8, <1>9 DEF Cycle

\* The records keep their types and their gaps, whatever happens to them.
RecordsOK ==
  /\ warnings \in [Users -> Record] /\ file \in [Users -> Record]
  /\ writing \in [by : {"nobody", "cycle", "operator"}, data : [Users -> Record]]
  /\ want \subseteq {"cycle", "operator"}

LEMMA EmptyFacts == Empty \in [Users -> Record] /\ NoWrite \in [by : {"nobody", "cycle", "operator"}, data : [Users -> Record]]
                    /\ NoWrite.data = Empty /\ \A u \in Users : Empty[u] = None
  BY NoneFacts DEF Empty, NoWrite

LEMMA RecordsStep == ASSUME TypeOK, GapInv, [Next]_vars PROVE RecordsOK' /\ GapInv'
  <1>0. RecordsOK /\ used \in Rules
    BY DEF TypeOK, RecordsOK
  <1>1. CASE Cycle
    <2>1. CycleMoves
      BY <1>1, CycleRecords
    <2>2. ASSUME NEW v \in Users PROVE warnings'[v] \in Record /\ Spaced(warnings'[v])
      <3>1. warnings[v] \in Record /\ Spaced(warnings[v])
        BY <1>0 DEF RecordsOK, GapInv
      <3>2. QED
        BY <1>0, <2>1, <3>1, RecountFacts, NewRecordFacts, NoneFacts DEF CycleMoves, Moved, Recorded
    <2>3. warnings' \in [Users -> Record]
      BY <2>1, <2>2 DEF CycleMoves
    <2>4. QED
      BY <1>0, <2>1, <2>2, <2>3 DEF CycleMoves, RecordsOK, GapInv, Spaced
  <1>2. CASE UNCHANGED recordVars
    BY <1>0, <1>2 DEF recordVars, RecordsOK, GapInv, Spaced
  <1>3. CASE StartWrite
    <2>1. PICK t \in want : writing' = [by |-> t, data |-> warnings]
      BY <1>3 DEF StartWrite
    <2>2. writing'.data = warnings /\ UNCHANGED <<warnings, file, want>>
      BY <1>3, <2>1 DEF StartWrite
    <2>3. QED
      BY <1>0, <2>1, <2>2 DEF RecordsOK, GapInv, Spaced
  <1>4. CASE EndWrite
    <2>1. writing' = NoWrite /\ file' \in {file, writing.data} /\ warnings' = warnings /\ want' \subseteq want
      BY <1>4 DEF EndWrite
    <2>2. QED
      BY <1>0, <2>1, EmptyFacts, NoneFacts DEF RecordsOK, GapInv, Spaced
  <1>5. CASE ClearAll
    BY <1>0, <1>5, EmptyFacts, NoneFacts DEF ClearAll, RecordsOK, GapInv, Spaced
  <1>6. CASE Restart
    <2>1. /\ warnings' = [u \in Users |-> IF Active(file[u]) THEN file[u] ELSE None]
          /\ writing' = NoWrite /\ want' = {} /\ file' = file
      BY <1>6 DEF Restart
    <2>2. QED
      BY <1>0, <2>1, EmptyFacts, NoneFacts DEF RecordsOK, GapInv, Spaced
  <1>7. CASE Tick
    <2>1. /\ warnings' = Aged(warnings) /\ file' = Aged(file) /\ writing'.data = Aged(writing.data)
          /\ writing' = [by |-> writing.by, data |-> writing'.data] /\ want' = want
      BY <1>0, <1>7 DEF Tick, RecordsOK
    <2>2. ASSUME NEW recs \in [Users -> Record]
          PROVE  /\ Aged(recs) \in [Users -> Record]
                 /\ \A u \in Users : Spaced(recs[u]) => Spaced(Aged(recs)[u])
      <3>1. Aged(recs) = [u \in Users |-> Aged(recs)[u]]
        BY DEF Aged
      <3>2. QED
        BY <3>1, AgedFacts
    <2>3. QED
      BY <1>0, <2>1, <2>2 DEF RecordsOK, GapInv, Spaced
  <1>8. CASE ClockBack
    <2>1. /\ warnings' = SetBack(warnings) /\ file' = SetBack(file) /\ writing'.data = SetBack(writing.data)
          /\ writing' = [by |-> writing.by, data |-> writing'.data] /\ want' = want
          /\ \A u \in Users : warnings[u].last >= 0 /\ file[u].last >= 0 /\ writing.data[u].last >= 0
      BY <1>0, <1>8 DEF ClockBack, RecordsOK
    <2>2. ASSUME NEW recs \in [Users -> Record], \A u \in Users : recs[u].last >= 0
          PROVE  /\ SetBack(recs) \in [Users -> Record]
                 /\ \A u \in Users : Spaced(recs[u]) => Spaced(SetBack(recs)[u])
      <3>1. SetBack(recs) = [u \in Users |-> SetBack(recs)[u]]
        BY DEF SetBack
      <3>2. QED
        BY <2>2, <3>1, SetBackFacts
    <2>3. QED
      BY <1>0, <2>1, <2>2 DEF RecordsOK, GapInv, Spaced
  <1>9. QED
    BY <1>1, <1>2, <1>3, <1>4, <1>5, <1>6, <1>7, <1>8
       DEF Next, Save, Pause, Configure, Sync, Fade, vars

\* What a cycle turns its own state into.
LEMMA CycleTools ==
  ASSUME cyc \in Cycles, NEW u \in Users
  PROVE  /\ Done(u) \in Cycles /\ Done(u).pc = cyc.pc /\ Done(u).rule = cyc.rule
         /\ Done(u).current = cyc.current /\ Done(u).started = cyc.started
         /\ Done(u).who = cyc.who /\ Done(u).from = cyc.from
         /\ Protected(u) \in Cycles /\ Protected(u).pc = cyc.pc /\ Protected(u).rule = cyc.rule
         /\ Protected(u).current = cyc.current /\ Protected(u).started = cyc.started
         /\ Protected(u).who = cyc.who
         /\ Dropped(u) \in Cycles /\ Dropped(u).pc = cyc.from /\ Dropped(u).rule = cyc.rule
         /\ Dropped(u).current = cyc.current /\ Dropped(u).started = cyc.started
  <1>1. /\ Done(u) \in Cycles /\ Done(u).pc = cyc.pc /\ Done(u).rule = cyc.rule
        /\ Done(u).current = cyc.current /\ Done(u).started = cyc.started
        /\ Done(u).who = cyc.who /\ Done(u).from = cyc.from
    BY DEF Done, Cycles
  <1>2. /\ Protected(u) \in Cycles /\ Protected(u).pc = cyc.pc /\ Protected(u).rule = cyc.rule
        /\ Protected(u).current = cyc.current /\ Protected(u).started = cyc.started
        /\ Protected(u).who = cyc.who
    BY DEF Protected, Cycles
  <1>3. /\ Dropped(u) \in Cycles /\ Dropped(u).pc = cyc.from /\ Dropped(u).rule = cyc.rule
        /\ Dropped(u).current = cyc.current /\ Dropped(u).started = cyc.started
    BY DEF Dropped, Cycles, PCs
  <1>4. QED
    BY <1>1, <1>2, <1>3

\* The cycle goes on under its settings and admission.
GoesOn(pc) == /\ cyc' \in Cycles /\ cyc'.pc = pc /\ cyc.pc # "idle"
              /\ cyc'.rule = cyc.rule /\ cyc'.current = cyc.current

LEMMA GoesOnFacts ==
  ASSUME CycleInv, UNCHANGED worldVars, NEW pc, GoesOn(pc),
         pc \in {"added", "verify", "punish"} => \E u \in Users : cyc'.who = {u},
         pc # "punish" => ~cyc'.started
  PROVE  RuleTaken' /\ OneWho' /\ Unstarted' /\ CycleCurrent'
  BY DEF CycleInv, GoesOn, RuleTaken, OneWho, Unstarted, CycleCurrent, worldVars

LEMMA NoCycleFacts == NoCycle \in Cycles /\ NoCycle.pc = "idle" /\ ~NoCycle.started
  BY DEF NoCycle, Cycles, PCs, AllSamples, Policies

CycleOK == cyc \in Cycles /\ RuleTaken /\ OneWho /\ Unstarted /\ CycleCurrent

\* A cycle leaves the settings, the database and the switch alone; it starts its clock and
\* adopts the settings it began with.
CycleWorld == /\ UNCHANGED worldVars /\ elapsed' \in {elapsed, 0}
              /\ used' = used \/ (used' = cyc.rule /\ cyc.pc = "report")

LEMMA CycleWorldFacts == ASSUME Cycle PROVE CycleWorld
  <1>1. CASE UNCHANGED <<used, worldVars, elapsed>>
    BY <1>1 DEF CycleWorld
  <1>2. CASE Begin
    BY <1>2 DEF Begin, CycleWorld
  <1>3. CASE Report
    BY <1>3 DEF Report, At, CycleWorld
  <1>4. CASE ReadFacts \/ Abandon \/ EndPersist \/ EndRemove \/ EndMain \/ EndSettle \/ Finish
    BY <1>1, <1>4 DEF ReadFacts, Abandon, EndPersist, EndRemove, EndMain, EndSettle, Finish
  <1>5. ASSUME NEW u \in Users, NEW ok \in Read,
               Persist(u, ok) \/ Remove(u, ok) \/ Settle(u, ok) \/ Expire(u, ok) \/ Refuse(u, ok) \/ Escape(u, ok)
        PROVE  CycleWorld
    BY <1>1, <1>5 DEF Persist, Remove, Settle, Expire, Refuse, Escape
  <1>6. ASSUME NEW u \in Users, Scan(u) \/ ScanFails(u) \/ Added(u) \/ Verify(u) \/ Effect(u) PROVE CycleWorld
    BY <1>1, <1>6 DEF Scan, ScanFails, Added, Verify, Effect
  <1>7. ASSUME NEW u \in Users, NEW result, Punished(u, result) PROVE CycleWorld
    BY <1>1, <1>7 DEF Punished
  <1>8. QED
    BY <1>2, <1>3, <1>4, <1>5, <1>6, <1>7 DEF Cycle

LEMMA CycleStep == ASSUME CycleInv, Cycle PROVE CycleOK' /\ used' \in Rules /\ elapsed' \in Nat
  <1>0. /\ cyc \in Cycles /\ used \in Rules /\ elapsed \in Nat /\ setting \in Rules /\ policy \in [Users -> Policies]
        /\ RuleTaken /\ OneWho /\ Unstarted /\ CycleCurrent
    BY DEF CycleInv, TypeOK
  <1>1. UNCHANGED worldVars
    BY CycleWorldFacts DEF CycleWorld
  <1>2. elapsed' \in {elapsed, 0} /\ (used' = used \/ (used' = cyc.rule /\ cyc.pc = "report"))
    BY CycleWorldFacts DEF CycleWorld
  <1>3. elapsed' \in Nat /\ used' \in Rules
    BY <1>0, <1>2 DEF RuleTaken
  <1> SUFFICES CycleOK'
    BY <1>3
  <1>a. CASE cyc' = NoCycle
    BY <1>a, NoCycleFacts DEF CycleOK, RuleTaken, OneWho, Unstarted, CycleCurrent
  <1>b. ASSUME NEW pc \in {"report", "persist", "remove", "main", "settle", "expire"}, GoesOn(pc), ~cyc'.started
        PROVE  CycleOK'
    <2>1. pc # "punish" /\ pc \notin {"added", "verify", "punish"}
      OBVIOUS
    <2>2. QED
      BY <1>1, <1>b, <2>1, GoesOnFacts DEF CycleOK, GoesOn
  <1>c. ASSUME NEW pc, GoesOn(pc), NEW u \in Users, cyc'.who = {u}, pc # "punish" => ~cyc'.started PROVE CycleOK'
    BY <1>1, <1>c, GoesOnFacts DEF CycleOK, GoesOn
  <1>4. CASE Begin
    <2>1. PICK sample \in [Users -> Samples] :
            cyc' = [NoCycle EXCEPT !.pc = "facts", !.current = TRUE, !.rule = setting, !.sample = sample,
                                   !.cands = {u \in Users : Recorded(u)}]
      BY <1>4 DEF Begin
    <2>2. sample \in [Users -> AllSamples]
      BY ConstantsAssumption
    <2>3. /\ cyc' \in Cycles /\ cyc'.pc = "facts" /\ cyc'.rule = setting /\ ~cyc'.started
      BY <1>0, <2>1, <2>2, NoCycleFacts DEF Cycles, PCs
    <2>4. ~paused' /\ setting' = setting
      BY <1>1, <1>4 DEF Begin, worldVars
    <2>5. QED
      BY <1>0, <2>3, <2>4 DEF CycleOK, RuleTaken, OneWho, Unstarted, CycleCurrent
  <1>5. CASE ReadFacts
    <2>1. GoesOn("report") /\ ~cyc'.started
      BY <1>0, <1>5 DEF ReadFacts, At, GoesOn, Cycles, PCs, Unstarted
    <2>2. QED
      BY <1>b, <2>1
  <1>6. CASE Report
    <2>1. GoesOn("persist") /\ ~cyc'.started
      BY <1>0, <1>6 DEF Report, At, GoesOn, Cycles, PCs, Unstarted
    <2>2. QED
      BY <1>b, <2>1
  <1>7. CASE Abandon \/ Finish
    BY <1>a, <1>7 DEF Abandon, Finish
  <1>8. CASE EndPersist
    <2>1. GoesOn("remove") /\ ~cyc'.started
      BY <1>0, <1>8 DEF EndPersist, At, GoesOn, Cycles, PCs, Unstarted
    <2>2. QED
      BY <1>b, <2>1
  <1>9. CASE EndRemove
    <2>1. GoesOn("main") /\ ~cyc'.started
      BY <1>0, <1>9 DEF EndRemove, At, GoesOn, Cycles, PCs, Unstarted
    <2>2. QED
      BY <1>b, <2>1
  <1>10. CASE EndMain
    <2>1. GoesOn("settle") /\ ~cyc'.started
      BY <1>0, <1>10 DEF EndMain, At, GoesOn, Cycles, PCs, Unstarted
    <2>2. QED
      BY <1>b, <2>1
  <1>11. CASE EndSettle
    <2>1. GoesOn("expire") /\ ~cyc'.started
      BY <1>0, <1>11 DEF EndSettle, At, GoesOn, Cycles, PCs, Unstarted
    <2>2. QED
      BY <1>b, <2>1
  <1>12. ASSUME NEW u \in Users, NEW ok \in Read, Persist(u, ok) PROVE CycleOK'
    <2>0. cyc.pc = "persist" /\ ~cyc.started
      BY <1>0, <1>12 DEF Persist, At, Unstarted
    <2>1. CASE cyc' \in {Done(u), Protected(u)}
      <3>1. GoesOn("persist") /\ ~cyc'.started
        BY <1>0, <2>0, <2>1, CycleTools DEF GoesOn
      <3>2. QED
        BY <1>b, <3>1
    <2>2. CASE cyc' \in {[Done(u) EXCEPT !.pol[u] = policy[u], !.rest = @ \cup {u}], [Done(u) EXCEPT !.pol[u] = policy[u]]}
      <3>1. PICK d \in Cycles : d = Done(u) /\ d.pc = cyc.pc /\ d.rule = cyc.rule /\ d.current = cyc.current
                                /\ d.started = cyc.started
        BY <1>0, CycleTools
      <3>2. PICK S \in SUBSET Users : cyc' = [d EXCEPT !.pol[u] = policy[u], !.rest = S]
        <4>1. d.rest \in SUBSET Users /\ d.rest \cup {u} \in SUBSET Users
          BY <3>1 DEF Cycles
        <4>2. \/ cyc' = [d EXCEPT !.pol[u] = policy[u], !.rest = d.rest]
              \/ cyc' = [d EXCEPT !.pol[u] = policy[u], !.rest = d.rest \cup {u}]
          BY <2>2, <3>1 DEF Cycles
        <4>3. QED
          BY <4>1, <4>2
      <3>3. cyc' \in Cycles /\ cyc'.pc = d.pc /\ cyc'.rule = d.rule /\ cyc'.current = d.current /\ cyc'.started = d.started
        BY <1>0, <3>1, <3>2 DEF Cycles
      <3>4. GoesOn("persist") /\ ~cyc'.started
        BY <2>0, <3>1, <3>3 DEF GoesOn
      <3>5. QED
        BY <1>b, <3>4
    <2>3. CASE cyc' = [Sentence(u) EXCEPT !.pol[u] = policy[u]]
      <3>1. GoesOn("verify") /\ cyc'.who = {u} /\ ~cyc'.started
        BY <1>0, <2>0, <2>3 DEF GoesOn, Sentence, Cycles, PCs
      <3>2. QED
        BY <1>c, <3>1
    <2>4. QED
      BY <1>12, <2>1, <2>2, <2>3 DEF Persist
  <1>13. ASSUME NEW u \in Users, NEW ok \in Read, Remove(u, ok) \/ Settle(u, ok) \/ ScanFails(u) PROVE CycleOK'
    <2>1. cyc.pc \in {"remove", "settle", "main"} /\ ~cyc.started /\ cyc' \in {Done(u), Protected(u)}
      BY <1>0, <1>13 DEF Remove, Settle, ScanFails, At, Unstarted
    <2>2. GoesOn(cyc.pc) /\ ~cyc'.started
      BY <1>0, <2>1, CycleTools DEF GoesOn
    <2>3. QED
      BY <1>b, <2>1, <2>2
  <1>14. ASSUME NEW u \in Users, NEW ok \in Read, Expire(u, ok) PROVE CycleOK'
    <2>1. PICK d \in Cycles : d = Done(u) /\ d.pc = cyc.pc /\ d.rule = cyc.rule /\ d.current = cyc.current
                              /\ d.started = cyc.started
      BY <1>0, CycleTools
    <2>2. PICK S \in SUBSET Users : cyc' = [d EXCEPT !.rest = S]
      <3>1. d.rest \in SUBSET Users /\ d.rest \cup {u} \in SUBSET Users
        BY <2>1 DEF Cycles
      <3>2. cyc' = [d EXCEPT !.rest = d.rest \cup {u}] \/ cyc' = [d EXCEPT !.rest = d.rest]
        BY <1>14, <2>1 DEF Expire
      <3>3. QED
        BY <3>1, <3>2
    <2>3. cyc.pc = "expire" /\ ~cyc.started
      BY <1>0, <1>14 DEF Expire, At, Unstarted
    <2>4. GoesOn("expire") /\ ~cyc'.started
      BY <2>1, <2>2, <2>3 DEF GoesOn, Cycles
    <2>5. QED
      BY <1>b, <2>4
  <1>15. ASSUME NEW u \in Users, NEW ok \in Read, Refuse(u, ok) \/ Escape(u, ok) PROVE CycleOK'
    <2>1. cyc.pc # "idle" /\ ~cyc.started /\ cyc' = Dropped(u)
      BY <1>0, <1>15 DEF Refuse, Escape, At, Unstarted
    <2>2. GoesOn(cyc.from) /\ ~cyc'.started /\ cyc.from \in {"idle", "persist", "main"}
      BY <1>0, <2>1, CycleTools DEF GoesOn, Cycles
    <2>3. QED
      BY <1>1, <2>2, GoesOnFacts DEF CycleOK, GoesOn
  <1>16. ASSUME NEW u \in Users, Scan(u) PROVE CycleOK'
    <2>0. cyc.pc = "main" /\ ~cyc.started
      BY <1>0, <1>16 DEF Scan, At, Unstarted
    <2>1. CASE cyc' = Done(u)
      <3>1. GoesOn("main") /\ ~cyc'.started
        BY <1>0, <2>0, <2>1, CycleTools DEF GoesOn
      <3>2. QED
        BY <1>b, <3>1
    <2>2. ASSUME NEW S \in SUBSET Users, cyc' = [Done(u) EXCEPT !.pc = "added", !.who = {u}, !.cands = S]
          PROVE  CycleOK'
      <3>1. PICK d \in Cycles : d = Done(u) /\ d.rule = cyc.rule /\ d.current = cyc.current /\ d.started = cyc.started
        BY <1>0, CycleTools
      <3>2. GoesOn("added") /\ cyc'.who = {u} /\ ~cyc'.started
        BY <2>0, <2>2, <3>1 DEF GoesOn, Cycles, PCs
      <3>3. QED
        BY <1>c, <3>2
    <2>3. PICK d \in Cycles : d = Done(u)
      BY <1>0, CycleTools
    <2>4. d.cands \in SUBSET Users /\ d.cands \ {u} \in SUBSET Users
      BY <2>3 DEF Cycles
    <2>5. \/ cyc' = Done(u)
          \/ cyc' = [Done(u) EXCEPT !.pc = "added", !.who = {u}, !.cands = d.cands]
          \/ cyc' = [Done(u) EXCEPT !.pc = "added", !.who = {u}, !.cands = d.cands \ {u}]
      BY <1>16, <2>3 DEF Scan
    <2>6. QED
      BY <2>1, <2>2, <2>4, <2>5
  <1>17. ASSUME NEW u \in Users, Added(u) PROVE CycleOK'
    <2>0. cyc.pc = "added" /\ ~cyc.started
      BY <1>0, <1>17 DEF Added, At, Unstarted
    <2>1. ASSUME NEW S \in SUBSET Users, NEW T \in SUBSET Users,
                 cyc' = [cyc EXCEPT !.pc = "main", !.who = {}, !.prot = S, !.cands = T]
          PROVE  CycleOK'
      <3>1. GoesOn("main") /\ ~cyc'.started
        BY <1>0, <2>0, <2>1 DEF GoesOn, Cycles, PCs
      <3>2. QED
        BY <1>b, <3>1
    <2>2. CASE cyc' = [Sentence(u) EXCEPT !.from = "main"]
      <3>1. GoesOn("verify") /\ cyc'.who = {u} /\ ~cyc'.started
        BY <1>0, <2>0, <2>2 DEF GoesOn, Sentence, Cycles, PCs
      <3>2. QED
        BY <1>c, <3>1
    <2>3. cyc.prot \in SUBSET Users /\ cyc.prot \cup {u} \in SUBSET Users
          /\ cyc.cands \in SUBSET Users /\ cyc.cands \cup {u} \in SUBSET Users
      BY <1>0 DEF Cycles
    <2>4. \/ cyc' = [Sentence(u) EXCEPT !.from = "main"]
          \/ cyc' = [cyc EXCEPT !.pc = "main", !.who = {}, !.prot = cyc.prot, !.cands = cyc.cands \cup {u}]
          \/ cyc' = [cyc EXCEPT !.pc = "main", !.who = {}, !.prot = cyc.prot \cup {u}, !.cands = cyc.cands]
          \/ cyc' = [cyc EXCEPT !.pc = "main", !.who = {}, !.prot = cyc.prot, !.cands = cyc.cands]
      BY <1>0, <1>17 DEF Added, Cycles
    <2>5. QED
      BY <2>1, <2>2, <2>3, <2>4
  <1>18. ASSUME NEW u \in Users, Verify(u) PROVE CycleOK'
    <2>1. cyc.pc = "verify" /\ ~cyc.started /\ cyc' = [cyc EXCEPT !.pc = "punish", !.pol[u] = policy[u]]
      BY <1>0, <1>18 DEF Verify, At, Unstarted
    <2>2. GoesOn("punish") /\ cyc'.who = cyc.who
      BY <1>0, <2>1 DEF GoesOn, Cycles, PCs
    <2>3. QED
      BY <1>0, <1>c, <2>1, <2>2 DEF OneWho
  <1>19. ASSUME NEW u \in Users, Effect(u) PROVE CycleOK'
    <2>1. cyc.pc = "punish" /\ cyc' = [cyc EXCEPT !.started = TRUE, !.pol[u] = policy[u]]
      BY <1>19 DEF Effect, At
    <2>2. GoesOn("punish") /\ cyc'.who = cyc.who
      BY <1>0, <2>1 DEF GoesOn, Cycles, PCs
    <2>3. QED
      BY <1>0, <1>c, <2>1, <2>2 DEF OneWho
  <1>20. ASSUME NEW u \in Users, NEW result, Punished(u, result) PROVE CycleOK'
    <2>1. PICK S \in SUBSET Users : cyc' = [cyc EXCEPT !.pc = cyc.from, !.who = {}, !.started = FALSE, !.out = S]
      <3>1. cyc.out \in SUBSET Users /\ cyc.out \cup {u} \in SUBSET Users
        BY <1>0 DEF Cycles
      <3>2. \/ cyc' = [cyc EXCEPT !.pc = cyc.from, !.who = {}, !.started = FALSE, !.out = cyc.out]
            \/ cyc' = [cyc EXCEPT !.pc = cyc.from, !.who = {}, !.started = FALSE, !.out = cyc.out \cup {u}]
        BY <1>20 DEF Punished
      <3>3. QED
        BY <3>1, <3>2
    <2>2. GoesOn(cyc.from) /\ ~cyc'.started /\ cyc.from \in {"idle", "persist", "main"}
      BY <1>0, <1>20, <2>1 DEF Punished, At, GoesOn, Cycles, PCs
    <2>3. QED
      BY <1>1, <2>2, GoesOnFacts DEF CycleOK, GoesOn
  <1>t. TRUE \in Read
    BY DEF Read
  <1>21. QED
    BY <1>3, <1>4, <1>5, <1>6, <1>7, <1>8, <1>9, <1>10, <1>11, <1>12, <1>13, <1>14, <1>15, <1>16, <1>17, <1>18,
       <1>19, <1>20, <1>t DEF Cycle

-----------------------------------------------------------------------------
(* Theorems.                                                               *)

LEMMA InitInv == Init => CycleInv /\ GapInv /\ ClearInv /\ NeverCleared
  <1> SUFFICES ASSUME Init PROVE CycleInv /\ GapInv /\ ClearInv /\ NeverCleared
    OBVIOUS
  <1>0. /\ Grown \in Nat /\ Interval \in Nat /\ Empty \in [Users -> Record] /\ NoWrite.data = Empty
        /\ NoWrite \in [by : {"nobody", "cycle", "operator"}, data : [Users -> Record]]
        /\ \A u \in Users : Empty[u] = None
        /\ NoCycle \in Cycles /\ NoCycle.pc = "idle" /\ ~NoCycle.started
    BY ConstantFacts, EmptyFacts, NoCycleFacts
  <1>1. TypeOK
    <2>1. warnings \in [Users -> Record] /\ file \in [Users -> Record] /\ writing = NoWrite /\ want = {} /\ cyc \in Cycles
      BY <1>0 DEF Init
    <2>2. setting \in Rules /\ used \in Rules /\ policy \in [Users -> Policies] /\ paused \in BOOLEAN
      BY DEF Init, Policies
    <2>3. since \in 0..Grown /\ elapsed \in Nat
      BY <1>0 DEF Init
    <2>4. QED
      BY <1>0, <2>1, <2>2, <2>3 DEF TypeOK
  <1>2. RuleTaken /\ OneWho /\ Unstarted /\ CycleCurrent
    BY <1>0 DEF Init, RuleTaken, OneWho, Unstarted, CycleCurrent
  <1>3. GapInv
    BY <1>0, NoneFacts DEF Init, GapInv
  <1>4. ClearInv
    BY <1>0, NoneFacts DEF Init, ClearInv, Awaited, Young
  <1>5. NeverCleared
    BY DEF Init, NeverCleared
  <1>6. QED
    BY <1>1, <1>2, <1>3, <1>4, <1>5 DEF CycleInv

\* A cycle that is idle, or that stays as it is and no longer current, or that loses a
\* sample, is as sound as before.
LEMMA CycleStays ==
  ASSUME CycleInv, setting' \in Rules,
         \/ cyc' = cyc /\ UNCHANGED <<paused, setting>>
         \/ cyc' = Outdated
         \/ UNCHANGED <<paused, setting>> /\ \E u \in Users, s \in {"within", "unsure"} : cyc' = [cyc EXCEPT !.sample[u] = s]
         \/ cyc' = NoCycle
  PROVE  CycleOK'
  <1>0. cyc \in Cycles /\ RuleTaken /\ OneWho /\ Unstarted /\ CycleCurrent
    BY DEF CycleInv, TypeOK
  <1>1. CASE cyc' = cyc /\ UNCHANGED <<paused, setting>>
    BY <1>0, <1>1 DEF CycleOK, RuleTaken, OneWho, Unstarted, CycleCurrent
  <1>2. CASE cyc' = Outdated
    <2>1. /\ cyc' \in Cycles /\ cyc'.pc = cyc.pc /\ cyc'.rule = cyc.rule /\ cyc'.who = cyc.who
          /\ cyc'.started = cyc.started /\ ~cyc'.current
      BY <1>0, <1>2 DEF Outdated, Cycles
    <2>2. QED
      BY <1>0, <2>1 DEF CycleOK, RuleTaken, OneWho, Unstarted, CycleCurrent
  <1>3. CASE UNCHANGED <<paused, setting>> /\ \E u \in Users, s \in {"within", "unsure"} : cyc' = [cyc EXCEPT !.sample[u] = s]
    <2>1. PICK u \in Users, s \in AllSamples : cyc' = [cyc EXCEPT !.sample[u] = s]
      BY <1>3 DEF AllSamples
    <2>2. /\ cyc' \in Cycles /\ cyc'.pc = cyc.pc /\ cyc'.rule = cyc.rule /\ cyc'.who = cyc.who
          /\ cyc'.started = cyc.started /\ cyc'.current = cyc.current
      BY <1>0, <2>1 DEF Cycles
    <2>3. QED
      BY <1>0, <1>3, <2>2 DEF CycleOK, RuleTaken, OneWho, Unstarted, CycleCurrent
  <1>4. CASE cyc' = NoCycle
    BY <1>4, NoCycleFacts DEF CycleOK, RuleTaken, OneWho, Unstarted, CycleCurrent
  <1>5. QED
    BY <1>1, <1>2, <1>3, <1>4

\* Time since the last clearing.
LEMMA SinceType == ASSUME TypeOK, [Next]_vars PROVE since' \in 0..Grown /\ (NeverCleared => NeverCleared')
  <1>0. since \in 0..Grown /\ Grown \in Nat
    BY ConstantFacts DEF TypeOK
  <1>1. CASE since' = since
    BY <1>0, <1>1 DEF NeverCleared
  <1>2. CASE ClearAll
    BY <1>0, <1>2 DEF ClearAll, NeverCleared
  <1>3. CASE Tick
    BY <1>0, <1>3 DEF Tick, UpTo, NeverCleared
  <1>4. CASE Restart
    BY <1>0, <1>4 DEF Restart, NeverCleared
  <1>5. CASE Cycle
    BY <1>1, <1>5, CycleRecords DEF CycleMoves
  <1>6. QED
    BY <1>1, <1>2, <1>3, <1>4, <1>5 DEF Next, Save, StartWrite, EndWrite, Pause, Configure, ClockBack, Sync, Fade, vars

LEMMA SafeStep == ASSUME CycleInv, GapInv, [Next]_vars PROVE CycleInv' /\ GapInv'
  <1>0. /\ TypeOK /\ setting \in Rules /\ used \in Rules /\ policy \in [Users -> Policies] /\ paused \in BOOLEAN
        /\ elapsed \in Nat /\ Interval \in Nat
    BY ConstantFacts DEF CycleInv, TypeOK
  <1>1. RecordsOK' /\ GapInv' /\ since' \in 0..Grown
    BY <1>0, RecordsStep, SinceType
  <1>2. policy' \in [Users -> Policies] /\ paused' \in BOOLEAN /\ setting' \in Rules
    <2>1. CASE UNCHANGED worldVars
      BY <1>0, <2>1 DEF worldVars
    <2>2. CASE Pause
      BY <1>0, <2>2 DEF Pause
    <2>3. CASE Configure
      BY <1>0, <2>3 DEF Configure, Policies
    <2>4. ASSUME NEW u \in Users, Sync(u) PROVE policy' \in [Users -> Policies] /\ paused' \in BOOLEAN /\ setting' \in Rules
      BY <1>0, <2>4 DEF Sync, Policies
    <2>5. CASE Cycle
      BY <2>1, <2>5, CycleWorldFacts DEF CycleWorld
    <2>6. QED
      BY <2>1, <2>2, <2>3, <2>4, <2>5
         DEF Next, Save, StartWrite, EndWrite, Tick, ClearAll, Restart, ClockBack, Fade, vars, worldVars
  <1>3. CASE Cycle
    BY <1>1, <1>2, <1>3, CycleStep DEF CycleInv, CycleOK, TypeOK, RecordsOK
  <1>4. CASE ~Cycle
    <2>1. used' = used /\ elapsed' \in Nat
      BY <1>0, <1>4 DEF Next, Save, StartWrite, EndWrite, Tick, ClearAll, Pause, Configure, Restart, ClockBack, Sync, Fade,
                        UpTo, vars
    <2>2. \/ cyc' = cyc /\ UNCHANGED <<paused, setting>>
          \/ cyc' = Outdated
          \/ UNCHANGED <<paused, setting>> /\ \E u \in Users, s \in {"within", "unsure"} : cyc' = [cyc EXCEPT !.sample[u] = s]
          \/ cyc' = NoCycle
      BY <1>4 DEF Next, Save, StartWrite, EndWrite, Tick, ClearAll, Pause, Configure, Restart, ClockBack, Sync, Fade,
                  vars, worldVars
    <2>3. CycleOK'
      BY <1>2, <2>2, CycleStays
    <2>4. QED
      BY <1>0, <1>1, <1>2, <2>1, <2>3 DEF CycleInv, CycleOK, TypeOK, RecordsOK
  <1>5. QED
    BY <1>3, <1>4

LEMMA SafeAlways == Spec => [](CycleInv /\ GapInv)
  <1>1. Init => CycleInv /\ GapInv
    BY InitInv
  <1>2. CycleInv /\ GapInv /\ [Next]_vars => (CycleInv /\ GapInv)'
    BY SafeStep
  <1>3. QED
    BY <1>1, <1>2, PTL DEF Spec

\* Every variable keeps its type.
THEOREM TypeCorrect == Spec => []TypeOK
  <1>1. CycleInv => TypeOK
    BY DEF CycleInv
  <1>2. QED
    BY <1>1, SafeAlways, PTL

\* Only one step begins the panel mutation, for a user convicted at that moment.
LEMMA OnlyEffectStarts ==
  ASSUME CycleInv, [Next]_vars, Starts PROVE \E u \in Users : cyc.who = {u} /\ cyc.pc = "punish" /\ Convicted(u)
  <1>0. cyc \in Cycles /\ Unstarted /\ OneWho /\ ~cyc.started
    BY DEF CycleInv, TypeOK, Starts
  <1>1. ASSUME NEW u \in Users, Effect(u) PROVE cyc.who = {u} /\ cyc.pc = "punish" /\ Convicted(u)
    BY <1>0, <1>1 DEF Effect, At, OneWho
  <1>2. CASE cyc' \in {cyc, NoCycle, Outdated}
    BY <1>0, <1>2, NoCycleFacts DEF Starts, Outdated, Cycles
  <1>3. ASSUME NEW u \in Users, Fade(u) PROVE FALSE
    BY <1>0, <1>3 DEF Fade, Starts, Cycles
  <1>4. CASE Begin
    BY <1>4, NoCycleFacts DEF Begin, Starts, Cycles
  <1>5. CASE ReadFacts \/ Report \/ EndPersist \/ EndRemove \/ EndMain \/ EndSettle
    BY <1>0, <1>5 DEF ReadFacts, Report, EndPersist, EndRemove, EndMain, EndSettle, Starts, Cycles
  <1>6. ASSUME NEW u \in Users, NEW ok \in Read,
               \/ Persist(u, ok) \/ Remove(u, ok) \/ Settle(u, ok) \/ Refuse(u, ok) \/ Escape(u, ok) \/ ScanFails(u)
               \/ Expire(u, ok)
        PROVE  FALSE
    <2>1. CASE cyc' \in {Done(u), Protected(u), Dropped(u)}
      BY <1>0, <2>1, CycleTools DEF Starts
    <2>2. CASE Persist(u, ok)
      BY <1>0, <2>2 DEF Persist, Starts, Done, Protected, Sentence, Cycles
    <2>3. CASE Expire(u, ok)
      BY <1>0, <2>3 DEF Expire, Starts, Done, Cycles
    <2>4. QED
      BY <1>6, <2>1, <2>2, <2>3 DEF Remove, Settle, Refuse, Escape, ScanFails
  <1>7. ASSUME NEW u \in Users, Scan(u) \/ Added(u) \/ Verify(u) PROVE FALSE
    <2>1. CASE Scan(u)
      BY <1>0, <2>1 DEF Scan, Starts, Done, Cycles
    <2>2. CASE Added(u)
      BY <1>0, <2>2 DEF Added, Starts, Sentence, Cycles
    <2>3. CASE Verify(u)
      BY <1>0, <2>3 DEF Verify, Starts, Cycles
    <2>4. QED
      BY <1>7, <2>1, <2>2, <2>3
  <1>8. ASSUME NEW u \in Users, NEW result, Punished(u, result) PROVE FALSE
    BY <1>0, <1>8 DEF Punished, Starts, Cycles
  <1>t. TRUE \in Read
    BY DEF Read
  <1>9. CASE Cycle
    BY <1>1, <1>2, <1>4, <1>5, <1>6, <1>7, <1>8, <1>9, <1>t DEF Cycle, Abandon, Finish
  <1>10. QED
    BY <1>2, <1>3, <1>9 DEF Next, Save, StartWrite, EndWrite, Tick, ClearAll, Pause, Configure, Restart, ClockBack, Sync, vars

\* However restarts, changed settings and a corrected clock come in between, nobody is
\* punished before the scans the record promised, half an interval apart
\* (EnhancedWarningSystem.add_warning, punishment_is_current).
THEOREM NobodyHasty == Spec => NoHastyBan
  <1>1. ASSUME CycleInv, GapInv, [Next]_vars, Starts, NEW v \in cyc.who
        PROVE  warnings[v].n >= warnings[v].rule /\ warnings[v].age >= (warnings[v].rule - 1) * MinGap
    <2>1. v \in Users /\ Convicted(v)
      BY <1>1, OnlyEffectStarts
    <2>2. PICK rec \in Record : rec = warnings[v] /\ Spaced(rec)
      BY <1>1, <2>1 DEF CycleInv, TypeOK, GapInv
    <2>3. used \in Nat \ {0} /\ rec \in Record /\ rec.n \in 0..MaxRule /\ rec.rule \in Nat /\ MaxRule \in Nat /\ MinGap \in Nat
          /\ rec.last \in -1..Longest + 1 /\ Longest \in Nat /\ rec.age \in 0..Grown /\ Grown \in Nat
      <3>1. used \in Nat \ {0} /\ MaxRule \in Nat /\ MinGap \in Nat /\ Longest \in Nat /\ Grown \in Nat
        BY <1>1, ConstantFacts DEF CycleInv, TypeOK
      <3>2. rec \in Record /\ Rules \cup {0} \subseteq Nat
        BY <2>2, ConstantFacts
      <3>3. QED
        BY <3>1, <3>2 DEF Record
    <2>4. rec.n > 0 /\ rec.n >= rec.rule
      BY <2>1, <2>2, <2>3 DEF Convicted, Recorded, Required
    <2>5. PICK p \in 0..Grown : p = (rec.n - 1) * MinGap
      BY <2>3, <2>4, StreakAge
    <2>6. rec.age >= p
      <3>1. NotNegative(rec.last) \in Nat /\ rec.age >= UpTo(Grown, p + NotNegative(rec.last))
        BY <2>2, <2>3, <2>5 DEF Spaced, NotNegative
      <3>2. QED
        BY <2>3, <3>1 DEF UpTo
    <2>7. (rec.rule - 1) * MinGap <= p
      <3>1. CASE rec.rule = 0
        BY <2>3, <3>1
      <3>2. CASE rec.rule # 0
        BY <2>3, <2>4, <2>5, <3>2, StreakAge
      <3>3. QED
        BY <3>1, <3>2
    <2>8. QED
      BY <2>2, <2>3, <2>4, <2>6, <2>7
  <1>2. CycleInv /\ GapInv /\ [Next]_vars
          => [Starts => \A u \in cyc.who : /\ warnings[u].n >= warnings[u].rule
                                           /\ warnings[u].age >= (warnings[u].rule - 1) * MinGap]_vars
    BY <1>1
  <1>3. QED
    BY <1>2, SafeAlways, PTL DEF Spec, NoHastyBan

\* A record that is gone after a cycle's decision belonged to a user who could be judged
\* and was not over the limit.
LEMMA OnlyJustifiedClear == ASSUME CycleInv, [Next]_vars PROVE ClearJustified
  <1> SUFFICES ASSUME cyc'.pc \in {"remove", "settle", "expire"}, "operator" \notin want' \ want,
                      NEW v \in Users, Recorded(v), ~Recorded(v)'
               PROVE  ~Over(v) /\ policy[v] # "exempt" /\ cyc.sample[v] # "unsure" /\ cyc.current
    BY DEF ClearJustified
  <1>0. /\ TypeOK /\ cyc \in Cycles /\ warnings \in [Users -> Record] /\ NoCycle.pc = "idle"
        /\ warnings[v].n > 0 /\ ~(warnings'[v].n > 0)
    BY NoCycleFacts DEF CycleInv, TypeOK, Recorded
  <1>1. warnings' # warnings
    BY <1>0
  <1>2. CASE Restart
    BY <1>0, <1>2 DEF Restart
  <1>3. CASE ClearAll
    BY <1>3 DEF ClearAll
  <1>4. CASE Tick
    BY <1>0, <1>4, AgedFacts DEF Tick
  <1>5. CASE ClockBack
    <2>1. warnings[v].last >= 0 /\ warnings' = SetBack(warnings)
      BY <1>5 DEF ClockBack
    <2>2. QED
      BY <1>0, <2>1, SetBackFacts
  <1>6. ASSUME NEW u \in Users, NEW ok \in Read, Remove(u, ok) \/ Settle(u, ok) \/ Expire(u, ok)
        PROVE  ~Over(v) /\ policy[v] # "exempt" /\ cyc.sample[v] # "unsure" /\ cyc.current
    <2>1. Judgeable(u) /\ ~Over(u) /\ warnings' = [warnings EXCEPT ![u] = None]
      BY <1>1, <1>6 DEF Remove, Settle, Expire
    <2>2. u = v
      BY <1>0, <2>1
    <2>3. QED
      BY <2>1, <2>2 DEF Judgeable
  <1>7. ASSUME NEW u \in Users, Scan(u) PROVE FALSE
    <2>1. Done(u).pc = "main"
      BY <1>0, <1>7, CycleTools DEF Scan, At
    <2>2. PICK d \in Cycles : d = Done(u)
      BY <1>0, CycleTools
    <2>3. cyc'.pc \in {"main", "added"}
      BY <1>7, <2>1, <2>2 DEF Scan, Cycles
    <2>4. QED
      BY <2>3
  <1>8. ASSUME NEW u \in Users, NEW result, Punished(u, result) PROVE FALSE
    <2>1. cyc'.pc = cyc.from
      BY <1>0, <1>8 DEF Punished, Cycles
    <2>2. QED
      BY <1>0, <2>1 DEF Cycles
  <1>9. CASE Cycle
    BY <1>1, <1>6, <1>7, <1>8, <1>9 DEF Cycle, Begin, ReadFacts, Report, Abandon, EndPersist, EndRemove, EndMain,
       EndSettle, Finish, Persist, Refuse, Escape, ScanFails, Added, Verify, Effect, recordVars
  <1>10. QED
    BY <1>1, <1>2, <1>3, <1>4, <1>5, <1>9 DEF Next, Save, StartWrite, EndWrite, Pause, Configure, Sync, Fade, vars, recordVars

\* A verdict, to punish or to clear, is one the facts of that moment bear out, whatever
\* came in between reaching it and carrying it out (validate_enforcement, the second
\* decisions of check_persistent_violations).
THEOREM VerdictsStand == Spec => VerdictsHold
  <1>1. ASSUME CycleInv, [Next]_vars PROVE EffectAuthorized
    <2>1. SUFFICES ASSUME Starts, NEW v \in cyc.who
                   PROVE  /\ ~paused /\ setting = cyc.rule /\ Recorded(v)
                          /\ policy[v] = "limited" /\ cyc.sample[v] = "over"
      BY DEF EffectAuthorized
    <2>2. cyc.pc = "punish" /\ Convicted(v)
      BY <1>1, <2>1, OnlyEffectStarts
    <2>3. QED
      BY <1>1, <2>2 DEF Convicted, Judgeable, Over, OverBy, CycleInv, CycleCurrent
  <1>2. CycleInv /\ [Next]_vars => [EffectAuthorized /\ ClearJustified]_vars
    BY <1>1, OnlyJustifiedClear
  <1>3. QED
    BY <1>2, SafeAlways, PTL DEF Spec, VerdictsHold

\* One step keeps the records younger than the last clearing, unless a save may fail.
LEMMA ClearStep == ASSUME TypeOK, ClearInv, "disk" \notin Events, [Next]_vars PROVE ClearInv'
  <1>0. /\ warnings \in [Users -> Record] /\ file \in [Users -> Record] /\ writing.data \in [Users -> Record]
        /\ writing \in [by : {"nobody", "cycle", "operator"}, data : [Users -> Record]]
        /\ since \in 0..Grown /\ Grown \in Nat /\ used \in Rules
    BY ConstantFacts DEF TypeOK
  <1>1. CASE UNCHANGED recordVars /\ since' = since
    BY <1>1 DEF recordVars, ClearInv, Awaited, Young
  <1>2. CASE Cycle
    <2>1. CycleMoves
      BY <1>2, CycleRecords
    <2>2. ASSUME NEW v \in Users, warnings'[v].n > 0 PROVE warnings'[v].age <= since
      <3>1. CASE warnings'[v] = NewRecord
        BY <1>0, <3>1, NewRecordFacts
      <3>2. CASE warnings'[v] = None
        BY <2>2, <3>2, NoneFacts
      <3>3. CASE warnings'[v] = warnings[v]
        BY <2>2, <3>3 DEF ClearInv, Young
      <3>4. CASE Recorded(v) /\ warnings'[v] = Recount(warnings[v])
        <4>1. Recount(warnings[v]).age = warnings[v].age
          BY <1>0 DEF Recount, Record
        <4>2. QED
          BY <3>4, <4>1 DEF ClearInv, Young, Recorded
      <3>5. QED
        BY <2>1, <3>1, <3>2, <3>3, <3>4 DEF CycleMoves, Moved
    <2>3. Young(warnings)'
      BY <2>1, <2>2 DEF Young, CycleMoves
    <2>4. ("operator" \notin want => Young(file)) => ("operator" \notin want' => Young(file)')
      BY <2>1 DEF CycleMoves, Young
    <2>5. /\ (writing # NoWrite => writing.by \in want) => (writing' # NoWrite => writing'.by \in want')
          /\ (writing # NoWrite /\ ("operator" \notin want \/ writing.by = "operator") => Young(writing.data))
              => (writing' # NoWrite /\ ("operator" \notin want' \/ writing'.by = "operator") => Young(writing.data)')
      BY <2>1 DEF CycleMoves, Young
    <2>6. QED
      BY <2>3, <2>4, <2>5 DEF ClearInv, Awaited
  <1>3. CASE StartWrite
    <2>1. PICK t \in want : writing' = [by |-> t, data |-> warnings]
      BY <1>3 DEF StartWrite
    <2>2. writing'.by \in want' /\ writing'.data = warnings /\ UNCHANGED <<warnings, file, want, since>>
      BY <1>3, <2>1 DEF StartWrite
    <2>3. QED
      BY <2>2 DEF ClearInv, Awaited, Young
  <1>4. CASE EndWrite
    <2>1. /\ writing # NoWrite /\ writing' = NoWrite /\ file' = writing.data /\ want' = want \ {writing.by}
          /\ warnings' = warnings /\ since' = since
      BY <1>4 DEF EndWrite
    <2>2. "operator" \notin want' => Young(writing.data)
      BY <2>1 DEF ClearInv
    <2>3. QED
      BY <2>1, <2>2 DEF ClearInv, Awaited, Young
  <1>5. CASE ClearAll
    <2>1. /\ warnings' = Empty /\ "operator" \notin want /\ want' = want \cup {"operator"}
          /\ UNCHANGED <<file, writing>>
      BY <1>5 DEF ClearAll
    <2>2. Young(warnings)'
      BY <2>1, EmptyFacts, NoneFacts DEF Young
    <2>3. writing # NoWrite => writing.by \in want /\ writing.by # "operator"
      BY <2>1 DEF ClearInv, Awaited
    <2>4. QED
      BY <2>1, <2>2, <2>3 DEF ClearInv, Awaited
  <1>6. CASE Restart
    <2>1. /\ warnings' = [u \in Users |-> IF Active(file[u]) THEN file[u] ELSE None] /\ file' = file
          /\ writing' = NoWrite /\ want' = {} /\ since' = IF "operator" \in want THEN Grown ELSE since
      BY <1>6 DEF Restart
    <2>2. ASSUME NEW u \in Users, file[u].n > 0 PROVE file[u].age <= since'
      <3>1. file[u].age \in 0..Grown
        BY <1>0 DEF Record
      <3>2. QED
        BY <1>0, <2>1, <2>2, <3>1 DEF ClearInv, Young
    <2>3. QED
      BY <2>1, <2>2, NoneFacts DEF ClearInv, Awaited, Young
  <1>7. CASE Tick
    <2>1. /\ warnings' = Aged(warnings) /\ file' = Aged(file) /\ writing' = [writing EXCEPT !.data = Aged(@)]
          /\ since' = UpTo(Grown, since + 1) /\ want' = want
      BY <1>7 DEF Tick
    <2>2. ASSUME NEW recs \in [Users -> Record], Young(recs) PROVE \A u \in Users : Aged(recs)[u].n > 0 => Aged(recs)[u].age <= since'
      <3>1. ASSUME NEW u \in Users, Aged(recs)[u].n > 0 PROVE Aged(recs)[u].age <= since'
        <4>1. recs[u].n > 0 /\ Aged(recs)[u].age = UpTo(Grown, recs[u].age + 1) /\ recs[u].age \in 0..Grown
          BY <3>1, AgedFacts DEF Record
        <4>2. recs[u].age <= since
          BY <2>2, <4>1 DEF Young
        <4>3. QED
          BY <1>0, <2>1, <4>1, <4>2 DEF UpTo
      <3>2. QED
        BY <3>1
    <2>3. Aged(Empty) = Empty
      BY EmptyFacts, NoneFacts DEF Aged, Empty
    <2>4. writing'.by = writing.by /\ writing'.data = Aged(writing.data) /\ (writing = NoWrite => writing' = NoWrite)
      BY <1>0, <2>1, <2>3 DEF NoWrite
    <2>5. QED
      BY <1>0, <2>1, <2>2, <2>4 DEF ClearInv, Awaited, Young
  <1>8. CASE ClockBack
    <2>1. /\ warnings' = SetBack(warnings) /\ file' = SetBack(file) /\ writing' = [writing EXCEPT !.data = SetBack(@)]
          /\ since' = since /\ want' = want
          /\ \A u \in Users : warnings[u].last >= 0 /\ file[u].last >= 0 /\ writing.data[u].last >= 0
      BY <1>8 DEF ClockBack
    <2>2. ASSUME NEW recs \in [Users -> Record], \A u \in Users : recs[u].last >= 0, Young(recs)
          PROVE  \A u \in Users : SetBack(recs)[u].n > 0 => SetBack(recs)[u].age <= since'
      BY <2>1, <2>2, SetBackFacts DEF Young
    <2>3. SetBack(Empty) = Empty
      BY EmptyFacts, NoneFacts DEF SetBack, Empty
    <2>4. writing'.by = writing.by /\ writing'.data = SetBack(writing.data) /\ (writing = NoWrite => writing' = NoWrite)
      BY <1>0, <2>1, <2>3 DEF NoWrite
    <2>5. QED
      BY <1>0, <2>1, <2>2, <2>4 DEF ClearInv, Awaited, Young
  <1>9. QED
    BY <1>1, <1>2, <1>3, <1>4, <1>5, <1>6, <1>7, <1>8 DEF Next, Save, Pause, Configure, Sync, Fade, vars

\* Once a clearing is confirmed, no record older than it is in memory again, unless the
\* save the operator waited for may fail: then the file still has the old records, and a
\* restart reads them (clear_all_trust_data, save_warnings, load_warnings).
THEOREM ClearingsStick == ASSUME ClearingsSaved PROVE Spec => []ClearingSticks
  <1>1. CASE "clear" \notin Events
    <2>1. TypeOK /\ NeverCleared => ClearingSticks
      BY <1>1 DEF TypeOK, NeverCleared, ClearingSticks, Record
    <2>2. CycleInv /\ GapInv => TypeOK
      BY DEF CycleInv
    <2>3. TypeOK /\ NeverCleared /\ [Next]_vars => NeverCleared'
      BY SinceType
    <2>4. QED
      BY <2>1, <2>2, <2>3, InitInv, SafeAlways, PTL DEF Spec
  <1>2. CASE "disk" \notin Events
    <2>1. ClearInv => ClearingSticks
      BY DEF ClearInv, Young, ClearingSticks, Recorded
    <2>2. CycleInv /\ GapInv => TypeOK
      BY DEF CycleInv
    <2>3. TypeOK /\ ClearInv /\ [Next]_vars => ClearInv'
      BY <1>2, ClearStep
    <2>4. QED
      BY <2>1, <2>2, <2>3, InitInv, SafeAlways, PTL DEF Spec
  <1>3. QED
    BY <1>1, <1>2 DEF ClearingsSaved

=============================================================================
