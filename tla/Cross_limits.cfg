SPECIFICATION Spec
CONSTANTS
  Offers = {1, 2, 3}
  Accounts = {"a", "s"}
  Books <- MCBooks
  Purses <- MCPurses
  OutFee <- MCFee
  Unknown = Unknown
  Intents <- MCIntents
  Source = "s"
  InFee <- MCFee
  FixReduced = TRUE
  Ceiling = 1000
  MaxRounds = 2
  Pools <- MCNoPools
  FixAmm = TRUE
  MaxPoolRounds = 30
  Keep <- MCKeep
  StartOut = TRUE
INVARIANTS
  TypeOK
  SharesDisjoint
  CutOnlyByBetter
  LimitKept
  FundsKept
  StaysFunded
  AskKept
  BetterOfferFirst
  RoundsSuffice
CHECK_DEADLOCK FALSE
