SPECIFICATION WorkspaceSpec
CONSTANTS
  Handoffs = {h1, h2}
  Subjects = {s1}
  None = None
  First = h1
  Tool = Tool
  Hook = Hook
  Asker = Asker
  Intents = {i1}
  Copies = {c1, c2}
  MaxBinding = 1
  MaxToken = 0
  MaxCrashes = 0
  MaxDeaths = 1
  Twice = {}
  Faults = {}
  Troubles = {"write", "late", "lost"}
SYMMETRY MCSymmetry
CONSTRAINT MCApart
INVARIANTS WorkspaceSound BarredStayOut DeletionIsRemembered
PROPERTIES OnlyConfirmedLeave
CHECK_DEADLOCK FALSE
