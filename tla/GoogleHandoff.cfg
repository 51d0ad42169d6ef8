SPECIFICATION MCSpec
CONSTANTS
  Handoffs = {h1, h2, h3}
  Subjects = {s1, s2}
  None = None
  Tool = Tool
  Hook = Hook
  MaxBinding = 2
  MaxToken = 0
  MaxCrashes = 1
  Twice = {h3}
  Faults = {"write", "promote", "spawn", "button", "lapse"}
SYMMETRY MCSymmetry
INVARIANTS HandoffTypeOK SavedIsOwed FailedMeansUnsaved OneAccountEach OneReadyNotice NoSignInDuringSync
PROPERTIES ClaimMeansSaved OnlyTheActiveInstalls
CHECK_DEADLOCK FALSE
