SPECIFICATION FairSpec
CHECK_DEADLOCK FALSE
CONSTANTS
  Threads = {t1}
  SymbolExported = TRUE
  DlopenMayFail = FALSE
  Serialized = FALSE
  MaxDepth = 3
  MaxInits = 3
  MaxSubs = 0
PROPERTIES
  InitReturns
