SPECIFICATION WorkspaceLive
CONSTANTS
  Handoffs = {h1}
  Subjects = {s1}
  None = None
  First = h1
  Tool = Tool
  Hook = Hook
  Asker = Asker
  Intents = {i1}
  Copies = {c1}
  MaxBinding = 1
  MaxToken = 0
  MaxCrashes = 0
  MaxDeaths = 1
  Twice = {}
  Faults = {}
  Troubles = {"late"}
PROPERTIES DeletionsFinish
CHECK_DEADLOCK FALSE
