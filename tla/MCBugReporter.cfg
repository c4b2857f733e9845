CONSTANTS
  Calls = {r1, r2}
  MaxRetries = 2
  RetryAfters = {0, 5}
  NoReply = NoReply
  Errors = {e1}
  NoError = NoError
  Ttl = 2
  MaxBugs = 2
  MaxLost = 2
  MaxDeaths = 1
SPECIFICATION Spec
INVARIANTS
  ReporterTypeOK
  WaitsAsAsked
PROPERTIES
  CallImplemented
  CallsReturn
  DuplicatesExplained
  RecurringErrorFiled
CHECK_DEADLOCK FALSE
