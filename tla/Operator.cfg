SPECIFICATION Spec
CONSTANTS
  u1 = u1
  u2 = u2
  g1 = g1
  g2 = g2
  pA = pA
  pB = pB
  Users = {u1, u2}
  Groups = {g1, g2}
  Places = {pA, pB}
  MaxMessages = 3
  MaxFaults = 1
  Desks = {"groups", "quota", "admins", "nodes", "inbounds", "ladder", "limits", "notice", "general", "whitelist", "source", "pool", "token", "display", "disable", "remote"}
  DegradedReads = FALSE
INVARIANT InboundNeedsLogs
PROPERTY AsAsked
CHECK_DEADLOCK FALSE
SYMMETRY Symmetry
