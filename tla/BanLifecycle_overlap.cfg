SPECIFICATION Spec
CONSTANTS
  Users = {u1}
  Groups = {g1, gd}
  Lifters = {loop}
  Loop = loop
  ByStatus = ByStatus
  NoUser = NoUser
  Durations = {1}
  TimeToActive = 1
  Horizon = 2
  MaxTime = 3
  Disturbances = {"panel", "settings", "overlap"}
INVARIANT BanReversible
