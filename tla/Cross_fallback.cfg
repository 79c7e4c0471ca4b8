SPECIFICATION Spec
CONSTANTS
  Offers = {1, 2}
  Accounts = {"a", "s"}
  Books <- MCPoolBooks
  Purses <- MCPoolPurses
  OutFee <- MCFee
  Unknown = Unknown
  Intents <- MCPlainOffers
  Source = "s"
  InFee <- MCFee
  FixReduced = TRUE
  Ceiling = 1000
  MaxRounds = 30
  Pools <- MCPools
  FixAmm = TRUE
  MaxPoolRounds = 2
  Keep <- MCKeep
  StartOut = TRUE
INVARIANTS
  LimitKept
CHECK_DEADLOCK FALSE
