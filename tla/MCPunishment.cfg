SPECIFICATION PunishmentSpec
CONSTANTS
  Users = {u1}
  Groups = {g1, gd}
  Lifters = {loop, bot}
  Loop = loop
  ByStatus = ByStatus
  NoUser = NoUser
  Durations = {1}
  TimeToActive = 1
  Horizon = 2
  MaxTime = 3
  Disturbances = {"crash", "database", "lost", "refused", "protected", "panel", "settings", "cli"}
  Incidents = {i1, i2}
  FactFaults = {"crash", "cancel", "database", "corrupt"}
  Report = Report
INVARIANT BanReversible
INVARIANT InverseExact
INVARIANT FactsSound
PROPERTY BanKeepsPromise
SYMMETRY IncidentSymmetry
