SPECIFICATION Spec
CHECK_DEADLOCK FALSE
CONSTANTS
  PageSize = 16
  Align = 4
  GapAlign = 2
  NumPages = 5
  Foreign <- Program
  OsPages = {32, 64}
  Gap <- CodeGap
  Calls <- GeneralCalls
  NearCalls <- StubCalls
  Places <- NearPlaces
  MaxHeld = 3
  ProtectFails = FALSE
INVARIANT
  HeldAccessible
