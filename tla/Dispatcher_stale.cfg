SPECIFICATION Spec
CONSTANTS
  Notices = {n1, n2}
  Chunks = 1
  Observations = {}
  Groups = {g1}
  NoGroup = NoGroup
  NoBatch = NoBatch
  MaxRetries = 1
  Disturbances = {"disk", "cancel"}
PROPERTY SentWhereRecorded
