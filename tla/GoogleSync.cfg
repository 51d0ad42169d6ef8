SPECIFICATION HandoffLive
CONSTANTS
  Handoffs = {h1}
  Subjects = {s1, s2}
  None = None
  Tool = Tool
  Hook = Hook
  MaxBinding = 2
  MaxToken = 0
  MaxCrashes = 2
  Twice = {h1}
  Faults = {"write", "spawn", "button", "lapse"}
PROPERTIES SyncClears 
CHECK_DEADLOCK FALSE
