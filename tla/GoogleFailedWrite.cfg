SPECIFICATION HandoffSpec
CONSTANTS
  Handoffs = {h1}
  Subjects = {s1}
  None = None
  Tool = Tool
  Hook = Hook
  MaxBinding = 1
  MaxToken = 0
  MaxCrashes = 0
  Twice = {}
  Faults = {"promote"}
INVARIANTS FailedAttemptsStop
CHECK_DEADLOCK FALSE
