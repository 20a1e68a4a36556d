SPECIFICATION UsersSpec
CONSTANTS
  Parts = {"users"}
  Users = {1, 2, 3}
  Busy = {2}
  PageSize = 1
  Scenarios = {
    {"member", "local"},
    {"member", "fail"},
    {"facts", "fetch", "local", "fail", "crash"},
    {"collect", "manual", "cancel", "settings", "fail"}}
  Requests = {r1}
  MaxRetries = 2
  Threshold = 2
  Recovery = 3
  SingleProbe = TRUE
  Span = 2
  Unavailable = 2
  Queried = {u1}
  Moving = {u1}
  Nodes = {n1}
  Live = {n1}
  Limit = 1
  Freshness = 1
  DeadCycles = 2
  MaxChanges = 1
  Exposures = {{}}
PROPERTY LocalWorkKept
PROPERTY MirrorRight
PROPERTY CollectionAdmitted
PROPERTY Converges
