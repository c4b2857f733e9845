CONSTANTS
  i1 = i1
  i2 = i2
  g1 = g1
  g2 = g2
  a1 = a1
  a2 = a2
  a3 = a3
  Issues = {i1, i2}
  Groups = {g1}
  Assignees = {a1, a2}
  NoRow = NoRow
  MaxPageDup = 0
  MaxStampLag = 1
  MaxPendingId = 9
  DlqItems <- Items
  NoItem = NoItem
  MaxDlqRows = 2
  MaxRetries = 1
  NoOne = NoOne
  RobotKnown = TRUE
  MaxEvents = 2
  MaxDups = 0
  MaxFaults = 2
  Members <- OneGroup
  Limit <- LimitTwo
  Route <- AllToG1
  NoGroup = NoGroup
  LoadBased = {g1}
  Has404 = {}
  MaxConfigs = 2
  MaxDbFaults = 0
  Handlers = {h1}
  KnownAs <- ByLogin
  Workers = {"pending", "dlq"}
  MaxCrashes = 0
SPECIFICATION FairSpec
CONSTRAINTS
  FirstCreated
PROPERTIES
  DutyDischarged
CHECK_DEADLOCK FALSE
