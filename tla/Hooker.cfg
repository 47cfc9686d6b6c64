SPECIFICATION Spec
CONSTANTS
  Threads = {t1}
  Addr <- ApartAddr
  Targets <- ApartTargets
  Replaces = {r1, r2}
  Pages = {p1, p2, p3}
  BLs <- ApartBLs
  MaxSlots = 2
  MaxSnapshots = 2
  Serialized = TRUE
  RestoreFails = FALSE
INVARIANTS
  TrampolineOwnership
  HeadMatchesSlot
  OriginRunsOriginal
