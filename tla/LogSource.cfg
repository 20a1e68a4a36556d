CONSTANTS
  Nodes = {n1}
  Slots = {1, 2}
  Window = 1
  Silence = 1
  MaxFaults = 2
  Scenarios <- TheScenarios
SPECIFICATION FairSpec
PROPERTIES
  AbsenceProven
  SamplesResume
CHECK_DEADLOCK FALSE
