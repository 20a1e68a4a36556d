SPECIFICATION ScanSpec
CONSTANTS
  Users = {u1}
  Rules = {1, 2}
  Interval = 2
  MaxCycle = 1
  Samples = {"absent", "over"}
  Events = {"settings", "crash", "sync", "age", "db", "fail"}
  LongRules = {2, 3}
  LongCycle = 2
PROPERTY NoHastyBan
PROPERTY VerdictsHold
PROPERTY OffenderPunished
INVARIANT ClearingSticks
