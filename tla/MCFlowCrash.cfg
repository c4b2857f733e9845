CONSTANTS
  i1 = i1
  i2 = i2
  g1 = g1
  g2 = g2
  a1 = a1
  a2 = a2
  a3 = a3
  Issues = {i1, i2}
  Groups = {g1}
  Assignees = {a1, a2}
  NoRow = NoRow
  MaxPageDup = 0
  MaxStampLag = 0
  MaxPendingId = 9
  DlqItems <- Items
  NoItem = NoItem
  MaxDlqRows = 2
  MaxRetries = 2
  NoOne = NoOne
  RobotKnown = FALSE
  MaxEvents = 3
  MaxDups = 0
  MaxFaults = 2
  Members <- OneGroup
  Limit <- LimitOne
  Route <- AllToG1
  NoGroup = NoGroup
  LoadBased = {g1}
  Has404 = {}
  MaxConfigs = 0
  MaxDbFaults = 2
  Handlers = {h1, h2}
  KnownAs <- ByLogin
  Workers = {"pending", "dlq"}
  MaxCrashes = 2
  MaxTroubles = 3
SPECIFICATION Spec
CONSTRAINTS
  FewTroubles
  FewOfBoth
SYMMETRY FlowSymmetry
INVARIANTS
  TypeOK
  OneHandlerPerIssue
  DutyKept
CHECK_DEADLOCK FALSE
