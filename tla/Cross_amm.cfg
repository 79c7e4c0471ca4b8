SPECIFICATION Spec
CONSTANTS
  Offers = {1, 2}
  Accounts = {"a", "s"}
  Books <- MCPoolBooks
  Purses <- MCPoolPurses
  OutFee <- MCFee
  Unknown = Unknown
  Intents <- MCPoolIntents
  Source = "s"
  InFee <- MCFee
  FixReduced = TRUE
  Ceiling = 1000
  MaxRounds = 3
  Pools <- MCPools
  FixAmm = TRUE
  MaxPoolRounds = 2
  Keep <- MCKeep
  StartOut = TRUE
INVARIANTS
  BudgetKept
  TraceAccounts
  SoldOut
  PoolPaid
  PoolKeepsRank
CHECK_DEADLOCK FALSE
