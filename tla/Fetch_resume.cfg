SPECIFICATION Spec
CONSTANTS
  Ledgers = {1, 2}
  TxOf <- MCTxOf
  Required <- MCRequired
  Checked = {TRUE}
  Workers = 2
  Retries = 0
  Faults = {"crash"}
  MaxRuns = 2
INVARIANT RequiredMerged
CHECK_DEADLOCK FALSE
