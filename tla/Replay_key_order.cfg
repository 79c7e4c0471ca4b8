SPECIFICATION Spec
CONSTANTS
  Offers <- MCOffers
  Accounts <- MCAccounts
  Owner <- MCOwner
  SideOf <- MCSideOf
  ObjectKey <- MCObjectKey
  Opening <- MCOpening
  KeyBound = 3
  MaxAmount = 2
  MaxFunds = 2
  MaxLedger = 2
  MaxTx = 2
  MaxNodes = 2
  TargetFlags = {TRUE}
  Faults = {}
  NoLine = NoLine
  LedgerStart = 1
  LedgerEnd = 2
  Strict = TRUE
  MaxOffersPerSide = 0
  Quality <- OneQuality
  DirectoryOrdered = FALSE
  AnnotatedPrebook = FALSE
  Unknown = Unknown
  NoLedger = NoLedger
  NoSnapshot = NoSnapshot
INVARIANTS
  SameQualityOrder
CHECK_DEADLOCK FALSE
