SPECIFICATION Spec
CHECK_DEADLOCK FALSE
CONSTANTS
  t1 = t1
  t2 = t2
  f = f
  g = g
  u = u
  r = r
  Threads = {t1, t2}
  Targets = {f, g}
  UserCells = {u}
  Fakes = {r}
  PagesOf <- PagesOfValue
  InitProt <- InitProtValue
  Thumb = {}
  Distance <- DistanceValue
  Builds <- BuildsValue
  RipHeads = {g}
  RelocMayFail = TRUE
  RipMayFail = FALSE
  NearMayFail = TRUE
  FinalizeMayFail = FALSE
  ClosureMayFail = FALSE
  CallersSerialise = TRUE
  MaxFaults = 1
  MaxCalls = 2
INVARIANTS
  CodeMatchesRegistry
  OriginIsOriginal
  ProtectionRestored
  BlocksMatchEntries
