SPECIFICATION ServicesSpec
CONSTANTS
  Notices = {n1}
  Chunks = 2
  Observations = {o1, o2}
  Groups = {g1, g2}
  NoGroup = NoGroup
  NoBatch = NoBatch
  MaxRetries = 1
  Disturbances = {"crash", "stop", "disk", "refused", "lost", "rejected", "late", "cancel", "pause", "group"}
INVARIANT NoticeKept
PROPERTY SendsRight
PROPERTY ForumRight
INVARIANT CustomerOnce
PROPERTY SentAsConfigured
INVARIANT RestoreSafe
CONSTANTS
  Incidents = {i1}
  Routes = {r1}
  Admins = {a1}
  MaxRevision = 3
  MirzaFaults = 2
  Stores = {"outbox", "groups"}
  Outbox = "outbox"
  UserGroups = "groups"
  MaxVersions = 2
  BackupFaults = 2
  Kinds = {"no_limit"}
  MaxThreads = 2
  MaxChanges = 5
  TopicsFaults = 1
CHECK_DEADLOCK FALSE
SYMMETRY ServicesSymmetry
