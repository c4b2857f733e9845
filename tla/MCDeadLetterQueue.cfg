CONSTANTS
  DlqItems = {item}
  NoItem = NoItem
  MaxDlqRows = 3
  MaxRetries = 2
  BatchSize = 2
  FirstWait = 2
  MaxLate = 1
  MaxTroubles = 1
SPECIFICATION QueueFairSpec
INVARIANTS
  QueueTypeOK
  RetryBudget
  BatchFresh
  CallBudget
PROPERTIES
  VerdictFinal
  DlqImplemented
  RowSettles
CHECK_DEADLOCK TRUE
