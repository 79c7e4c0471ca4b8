SPECIFICATION Spec
CONSTANTS
  Scripts = {"lines", "offers", "ticks", "prebook"}
  Jobs <- MCJobs
  Pages <- MCPages
  Parts <- MCParts
  LedgerOf <- MCLedgerOf
  Workers <- MCWorkers
  Retries = 1
  Limit = 2
  Stops = {0, 1}
  Faults = {"crash", "disk"}
  MaxRuns = 2
  MaxBreaks = 1
INVARIANTS
  TypeOK
  RecordsFaithful
  KeepsBest
  LossIsBounded
PROPERTY
  RunEnds
CHECK_DEADLOCK FALSE
