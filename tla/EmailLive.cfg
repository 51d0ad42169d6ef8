SPECIFICATION FairSpec
CONSTANTS
  m1 = m1
  m2 = m2
  o1 = o1
  o2 = o2
  Messages = {m1}
  Notifications = {n1}
  Welcome = welcome
  Bodies = {b1}
  NoKey = NoKey
  Owners = {o1}
  Sender <- MCOneOwner
  MaxTurns = 2
  MaxAttempts = 2
  FreshComputer = FALSE
  PostOutlivesPoll = FALSE
  MaxStops = 1
INVARIANTS
  SilenceIsExplained
PROPERTIES
  ArrivalsEnd
  OutboxDrains
  PollReachesMailbox
