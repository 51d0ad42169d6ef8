SPECIFICATION ComputerSpec
CONSTANTS
  Savers = {1, 2}
  NameOf <- MCNameOf
  MaxDirs = 4
  MaxFaults = 1
  Wears = {1, 2}
  Skills = {"a", "b"}
  SkillsAt <- MCSkillsAt
  MaxMishaps = 1
  Visuals = {"v"}
  EndOf <- MCEndOf
  Browsers = {1, 2}
  Threads = {1, 2}
  RequestIds = {1, 2}
  Capacity = 1
  MaxIds = 2
  MaxTime = 1
  MaxConnections = 2
  MaxHandoffs = 1
  Calls = {"c1", "c2"}
  MaxPids = 2
  MaxUpgrades = 2
  MaxStumbles = 1
  Shares = {1, 2, 3}
  MaxSlips = 2
  AppCalls = {"p", "q"}
  Legacy = {"skill"}
  MaxMeddles = 1
  MaxAppTroubles = 2
  Commands = {"f", "g"}
  Accounts = {"x"}
  MaxEvents = 2
  Copies = {"w1", "w2"}
  MaxLosses = 2
  Secrets = {"s"}
  HatSecrets = {"g"}
  Bundles = {"b"}
  Transfers = {"t"}
  Required = {"r"}
  SlackHandoffs = {"c", "d"}
  Names = {"x", "y"}
  NamesOf <- MCNamesOf
  Twice = {"s", "b", "r", "d"}
  None = None
  Removal = Removal
  Agendas <- MCAgendas
  MaxTroubles = 1
  Emails = {1, 2, 3}
  PageSize = 2
  Removable = {1, 3}
  MaxChanges = 3
INVARIANTS
  ComputerTypeOK
  HatsAreSound
  SharesAreSound
  GoogleToolsAreSound
  SecretsAreSound
  MailIsScanned
PROPERTIES
  FailuresRestore
  CeremoniesAreWhole
  WorkEnds
  EverythingArrives
CHECK_DEADLOCK FALSE
