SPECIFICATION FairSpec
CONSTANTS
  m1 = m1
  m2 = m2
  o1 = o1
  o2 = o2
  Messages = {}
  Notifications = {n1}
  Welcome = welcome
  Bodies = {b1}
  NoKey = NoKey
  Owners = {o1}
  Sender <- MCOneOwner
  MaxTurns = 2
  MaxAttempts = 2
  FreshComputer = FALSE
  PostOutlivesPoll = TRUE
  MaxStops = 1
PROPERTIES
  PollReachesMailbox
