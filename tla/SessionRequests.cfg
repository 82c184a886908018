SPECIFICATION FairSpec
CONSTANTS
  Requests = {r1, r2}
  PoolSizes = {2, 3}
  ClientEvents <- MCClientEvents
  BatchLimit = 2
  Production = TRUE
  AllowUnsigned = TRUE
  None = None
INVARIANTS
  TelemetryIsBestEffort
  EventsTellTheTruth
  SummaryAddsUp
PROPERTY RequestsEnd
\* Each request is made once.
CHECK_DEADLOCK FALSE
