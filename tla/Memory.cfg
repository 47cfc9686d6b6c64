SPECIFICATION AllSpec
CHECK_DEADLOCK FALSE
CONSTANTS
  PageSize = 16
  Align = 4
  GapAlign = 2
  NumPages = 5
  Foreign <- Program
  OsPages = {64, 80}
  Gap <- CodeGap
  Calls <- GeneralCalls
  NearCalls <- StubCalls
  Places <- NearPlaces
  MaxHeld = 3
  ProtectFails = FALSE
CONSTRAINT ProgramGapsOnly
INVARIANTS
  HeldAccessible
  NoIdlePage
  NearInReach
  PatchedWhole
PROPERTIES
  BlockStoreSpec
  LinearStoreSpec
