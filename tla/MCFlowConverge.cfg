CONSTANTS
  i1 = i1
  i2 = i2
  g1 = g1
  g2 = g2
  a1 = a1
  a2 = a2
  a3 = a3
  Issues = {i1, i2}
  Groups = {g1}
  Assignees = {a1, a2, a3}
  NoRow = NoRow
  MaxPageDup = 0
  MaxStampLag = 0
  MaxPendingId = 9
  DlqItems <- Items
  NoItem = NoItem
  MaxDlqRows = 1
  MaxRetries = 2
  NoOne = NoOne
  RobotKnown = TRUE
  MaxEvents = 2
  MaxDups = 1
  MaxFaults = 1
  Members <- OneGroup
  Limit <- LimitOne
  Route <- AllToG1
  NoGroup = NoGroup
  LoadBased = {g1}
  Has404 = {}
  MaxConfigs = 0
  MaxDbFaults = 1
  Handlers = {h1}
  KnownAs <- ByLoginOrId
  Workers = {"pending", "dlq", "sync"}
  MaxCrashes = 1
  MaxTroubles = 1
SPECIFICATION FairSpec
CONSTRAINTS
  FewTroubles
  FirstOnShift
  FirstCreated
PROPERTIES
  CountersConverge
  TablesImplemented
CHECK_DEADLOCK FALSE
