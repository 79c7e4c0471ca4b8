SPECIFICATION FitSpec
CONSTANTS
  Offers = {1, 2}
  Accounts = {"a", "s"}
  Books <- MCBooks
  Purses <- MCPurses
  OutFee <- MCFee
  Unknown = Unknown
  Intents <- MCIntents
  Source = "s"
  InFee <- MCUnit
  FixReduced = TRUE
  Ceiling = 1000
  MaxRounds = 3
  Pools <- MCPools
  FixAmm = TRUE
  MaxPoolRounds = 2
  Keep <- MCKeep
  StartOut = FALSE
  InAsset = "XRP"
  OutAsset = "USD"
  XrpIn = TRUE
  EndRate <- MCFee
  Ticks <- MCTicks
  ReserveBase = 10
  ReserveInc = 2
  Txs <- MCTxs
  Sequences <- MCSequences
  MaxFaults = 1
INVARIANTS
  RightRouterMatches
  StrictMeansSameTrade
  TradeWithinNoted
CHECK_DEADLOCK FALSE
