SPECIFICATION PanelSpec
CONSTANTS
  Parts = {"requests", "evidence"}
  Requests = {r1, r2}
  MaxRetries = 2
  Threshold = 2
  Recovery = 3
  SingleProbe = TRUE
  Span = 2
  Unavailable = 2
  Queried = {u1, u2}
  Moving = {u1}
  Nodes = {n1, n2}
  Live = {n1}
  Limit = 1
  Freshness = 1
  DeadCycles = 2
  MaxChanges = 1
  Exposures = {
    {"connect", "node", "bad"}, {"connect", "shift", "fail"}, {"connect", "swap"}, {"connect", "member", "rewire"},
    {"dead", "save"}, {"fail", "save", "settings", "topics"}}
  Users = {1}
  Busy = {}
  PageSize = 1
  Scenarios = {{}}
INVARIANT TrippedExactly
INVARIANT AvailabilityExact
PROPERTY TriesAgain
PROPERTY SteadySeen
PROPERTY EvidenceCurrent
PROPERTY FallsBack
