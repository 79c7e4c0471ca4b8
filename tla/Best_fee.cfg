SPECIFICATION OptSpec
CONSTANTS
  Offers = {1, 2}
  Accounts = {"a", "s"}
  Books <- MCBooks
  Purses <- MCPurses
  OutFee <- MCUnit
  Unknown = Unknown
  Intents <- MCIntents
  Source = "s"
  InFee <- MCFee
  FixReduced = TRUE
  Ceiling = 1000
  MaxRounds = 30
  Pools <- MCPools
  FixAmm = TRUE
  MaxPoolRounds = 30
  Keep <- MCKeep
  StartOut = FALSE
  Window = 1
INVARIANT
  LeastInputFound
CHECK_DEADLOCK FALSE
