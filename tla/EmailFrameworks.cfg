SPECIFICATION FrameworksSpec
CONSTANTS
  m1 = m1
  m2 = m2
  o1 = o1
  o2 = o2
  Messages = {m1, m2}
  Notifications = {}
  Welcome = welcome
  Bodies = {b1}
  NoKey = NoKey
  Owners = {o1}
  Sender <- MCMixedMail
  MaxTurns = 2
  MaxAttempts = 2
  HandoffLimit = 2
  FreshComputer = FALSE
  PostOutlivesPoll = TRUE
  MaxStops = 2
INVARIANTS
  FrameworksSound
  NoSilentLoss
PROPERTIES
  InterruptedTurnNotReplayed
  HandedOverIsClosed
