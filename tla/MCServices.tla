----------------------------- MODULE MCServices -----------------------------
(***************************************************************************)
(* The safety of four services that share no state here: the dispatcher    *)
(* (Dispatcher, as in MCDispatcher), the forum's topics, the notifications *)
(* of Mirza Bot, and backups.  Each behaviour exercises one of them, its   *)
(* part; the others stay where they began.                                 *)
(***************************************************************************)
EXTENDS MCDispatcher, TLC

CONSTANTS
  Incidents, Routes, Admins, MaxRevision, MirzaFaults,       \* of Mirza
  Stores, Outbox, UserGroups, MaxVersions, BackupFaults,     \* of Backup
  Kinds, MaxThreads, MaxChanges, TopicsFaults                \* of Topics

VARIABLES
  part, faults,
  routes, context, rows, worker, reporter, topic, received, posted, told,
  running, live, version, making, archive, task, before,
  published, topicsFile, topicsWrite, op, msg, forum, changes, reached

M == INSTANCE Mirza WITH MaxFaults <- MirzaFaults

K == INSTANCE Backup WITH work <- task, MaxFaults <- BackupFaults

T == INSTANCE Topics WITH
       mem <- published, disk <- topicsFile, write <- topicsWrite,
       Chats <- Groups, Messages <- Observations, MaxFaults <- TopicsFaults

\* The names the code gives its own parts are no names of messages or of stores.
ASSUME ServicesAssumption ==
  /\ {T!Operator, T!Nobody} \cap Observations = {}
  /\ IsFiniteSet(Stores) /\ {K!Db, K!Wal} \cap Stores = {} /\ Outbox \in Stores

mirza == <<routes, context, rows, worker, reporter, topic, received, posted, told>>
backup == <<running, live, version, making, archive, task, before>>
topics == <<published, topicsFile, topicsWrite, op, msg, forum, changes, reached>>
allVars == <<part, faults, vars, mirza, backup, topics>>

ServicesInit ==
  /\ part \in {"dispatcher", "mirza", "backup", "topics"}
  /\ Init /\ M!Init /\ K!Init /\ T!Init
  /\ IF part = "dispatcher" THEN OnlyNotices \/ OnlyObservations
     ELSE accepted = {} /\ what = [b \in Observations |-> "keyed"] /\ group = NoGroup /\ \A b \in Batches : batch[b] = "gone"
  /\ part = "mirza" \/ (topic /\ \E r \in Routes : routes[r].on)
  /\ part = "backup" \/ \A s \in Stores : live[s] = 1

ServicesNext ==
  \/ part = "dispatcher" /\ ApartNext /\ UNCHANGED <<part, faults, mirza, backup, topics>>
  \/ part = "mirza" /\ M!Next /\ UNCHANGED <<part, vars, backup, topics>>
  \/ part = "backup" /\ K!Next /\ UNCHANGED <<part, vars, mirza, topics>>
  \/ part = "topics" /\ T!Next /\ UNCHANGED <<part, vars, mirza, backup>>

ServicesSpec == ServicesInit /\ [][ServicesNext]_allVars

\* The customer gets the message at most once, and row and report say what happened.
CustomerOnce == M!CustomerOnce

\* No message goes out under a configuration that was replaced before the claim.
SentAsConfigured == M!SentAsConfigured

\* The topics manager describes the forum as it is.
ForumRight == T!ForumRight

\* A restore replaces everything or nothing, and loses no original.
RestoreSafe == K!RestoreSafe

\* Chats are interchangeable, and so are observations.
ServicesSymmetry == Permutations(Groups) \cup Permutations(Observations)
=============================================================================
