SPECIFICATION AftermathSpec
CONSTANTS
  Users = {u1}
  Callers = {scan, persistent}
  LastStep = 2
  WarningSteps = {0}
  MaxIncidents = 4
  Disturbances = {"crash", "cancel", "database", "mirror", "panel", "gone", "clear"}
  gd = gd
  loop = loop
  ByStatus = ByStatus
  NoUser = NoUser
  i1 = i1
  Report = Report
INVARIANT OneRowPerIncident
INVARIANT ClaimSound
INVARIANT EscalationInOrder
PROPERTY TimedBanEnds
PROPERTY ReportMade
