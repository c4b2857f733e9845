CONSTANTS
  i1 = i1
  i2 = i2
  g1 = g1
  g2 = g2
  a1 = a1
  a2 = a2
  a3 = a3
  Issues = {i1, i2}
  Groups = {g1, g2}
  Assignees = {a1, a2}
  NoRow = NoRow
  MaxPageDup = 0
  MaxStampLag = 0
  MaxPendingId = 9
  DlqItems <- Items
  NoItem = NoItem
  MaxDlqRows = 1
  MaxRetries = 2
  NoOne = NoOne
  RobotKnown = TRUE
  MaxEvents = 2
  MaxDups = 0
  MaxFaults = 0
  Members <- TwoGroups
  Limit <- LimitOne
  Route <- OneEach
  NoGroup = NoGroup
  LoadBased = {g1, g2}
  Has404 = {}
  MaxConfigs = 1
  MaxDbFaults = 0
  Handlers = {h1}
  KnownAs <- ByLogin
  Workers = {"pending"}
  MaxCrashes = 0
SPECIFICATION FairSpec
PROPERTIES
  FreeGroupServed
CHECK_DEADLOCK FALSE
