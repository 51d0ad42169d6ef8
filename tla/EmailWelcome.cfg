SPECIFICATION Spec
CONSTANTS
  m1 = m1
  m2 = m2
  o1 = o1
  o2 = o2
  Messages = {}
  Notifications = {n1}
  Welcome = welcome
  Bodies = {b1, b2}
  NoKey = NoKey
  Owners = {o1}
  Sender <- MCOneOwner
  MaxTurns = 2
  MaxAttempts = 1
  FreshComputer = TRUE
  PostOutlivesPoll = TRUE
  MaxStops = 1
INVARIANTS
  TypeOK
  OneTextPerKey
  TurnBudget
PROPERTIES
  ImplementsDuty
