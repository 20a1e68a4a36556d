SPECIFICATION Spec
CONSTANTS
  Services = {"dispatcher", "mirza"}
  Hours = {1, 3}
  Chats = {c1, c2}
  EarlyPress = FALSE
  MaxOutages = 2
  MaxFaults = 0
PROPERTY SchedulersStart
CHECK_DEADLOCK FALSE
