CONSTANTS
  i1 = i1
  i2 = i2
  g1 = g1
  g2 = g2
  a1 = a1
  a2 = a2
  a3 = a3
  Issues = {i1, i2}
  Groups = {g1}
  Assignees = {a1, a2}
  NoRow = NoRow
  MaxPageDup = 0
  MaxStampLag = 0
  MaxPendingId = 9
  DlqItems <- Items
  NoItem = NoItem
  MaxDlqRows = 1
  MaxRetries = 2
  NoOne = NoOne
  RobotKnown = TRUE
  MaxEvents = 2
  MaxDups = 0
  MaxFaults = 0
  Members <- OneGroup
  Limit <- LimitOne
  Route <- AllToG1
  NoGroup = NoGroup
  LoadBased = {g1}
  Has404 = {}
  MaxConfigs = 0
  MaxDbFaults = 0
  Handlers = {h1, h2}
  KnownAs <- ByLogin
  Workers = {}
  MaxCrashes = 0
SPECIFICATION Spec
CONSTRAINTS
  OnlyNewTickets
PROPERTIES
  WipLimitRespected
CHECK_DEADLOCK FALSE
