CONSTANTS
  Services = {"dispatcher", "mirza"}
  Hours = {1, 3}
  Chats = {c1, c2}
  EarlyPress = FALSE
  MaxOutages = 2
  BotFaults = 2
  Zones = {"A", "B"}
  Ahead = {"B"}
  Length = 2
  Begin = 3
  End = 4
  MaxRetries = 1
  MaxChanges = 1
  ReportFaults = 1
  Attempts = 3
  MaxCommits = 3
  MaxFaults = 1
  SnapshotOutage = FALSE
SPECIFICATION ProcessSpec
INVARIANT AutomaticBackup
 
INVARIANT MidnightSet
PROPERTY ReadsCurrent
PROPERTY ActsOnCurrent
PROPERTY BotReturns
PROPERTY DayEnds
CHECK_DEADLOCK FALSE
