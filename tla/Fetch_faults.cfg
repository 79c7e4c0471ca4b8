SPECIFICATION Spec
CONSTANTS
  Ledgers = {1, 2, 3}
  TxOf <- MCTxOf
  Required <- MCRequired
  Checked = {TRUE, FALSE}
  Workers = 2
  Retries = 1
  Faults = {"crash", "disk"}
  MaxRuns = 2
INVARIANTS
  TypeOK
  MergedSorted
  MissingIsReported
  RequiredUnlessSpoilt
PROPERTIES
  ShardsKept
  RunEnds
CHECK_DEADLOCK FALSE
