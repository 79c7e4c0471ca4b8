SPECIFICATION Spec
CONSTANTS
  Offers <- MCOffers
  Accounts <- MCAccounts
  Owner <- MCOwner
  SideOf <- OneSide
  ObjectKey <- MCObjectKey
  Opening <- TwoOpenings
  KeyBound = 3
  MaxAmount = 2
  MaxFunds = 1
  MaxLedger = 2
  MaxTx = 3
  MaxNodes = 1
  TargetFlags = {TRUE, FALSE}
  Faults = {"lost", "twice"}
  NoLine = NoLine
  LedgerStart = 2
  LedgerEnd = 2
  Strict = FALSE
  MaxOffersPerSide = 2
  Quality <- TwoQualities
  DirectoryOrdered = TRUE
  AnnotatedPrebook = TRUE
  Unknown = Unknown
  NoLedger = NoLedger
  NoSnapshot = NoSnapshot
INVARIANTS
  DamageIsLocal
  OwnersAgree
  NoStaleAnnotation
  TruncationKeepsBest
CHECK_DEADLOCK FALSE
