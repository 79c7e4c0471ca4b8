SPECIFICATION Spec
CONSTANTS
  Offers <- MCOffers
  Accounts <- MCAccounts
  Owner <- MCOwner
  SideOf <- TwoSides
  ObjectKey <- MCObjectKey
  Opening <- TieOpening
  KeyBound = 3
  MaxAmount = 2
  MaxFunds = 1
  MaxLedger = 2
  MaxTx = 2
  MaxNodes = 1
  TargetFlags = {TRUE}
  Faults = {"lost", "late", "twice", "no_prebook"}
  NoLine = NoLine
  LedgerStart = 1
  LedgerEnd = 2
  Strict = TRUE
  MaxOffersPerSide = 0
  Quality <- OneQuality
  DirectoryOrdered = TRUE
  AnnotatedPrebook = FALSE
  Unknown = Unknown
  NoLedger = NoLedger
  NoSnapshot = NoSnapshot
INVARIANTS
  TypeOK
  SnapshotIsPreState
  SameQualityOrder
  FundsAreEarlier
  NoSnapshotBehindGap
PROPERTY
  ImplementsOracle
CHECK_DEADLOCK FALSE
