SPECIFICATION Spec
CONSTANTS
  m1 = m1
  m2 = m2
  o1 = o1
  o2 = o2
  Messages = {m1}
  Notifications = {}
  Welcome = welcome
  Bodies = {b1, b2}
  NoKey = NoKey
  Owners = {o1, o2}
  Sender <- MCOneOwner
  MaxTurns = 2
  MaxAttempts = 2
  FreshComputer = FALSE
  PostOutlivesPoll = TRUE
  MaxStops = 1
INVARIANTS
  ReplyExcludesNotice
  OutboxIsSound
PROPERTIES
  OnlyOwnerTurns
  NothingResent
