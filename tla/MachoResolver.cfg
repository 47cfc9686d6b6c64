SPECIFICATION Spec
CHECK_DEADLOCK FALSE
CONSTANTS
  t1 = t1
  t2 = t2
  Threads = {t1, t2}
  Dyld <- DyldImage
  InfoArray <- InfoArrayValue
  DyldFile <- DyldFileValue
  CacheBase = 4000
  CacheVmaddr = 2000
  CacheSize = 3000
  LocalEntries <- LocalEntriesValue
  Resolves <- ResolvesValue
  Replaces <- ReplacesValue
  MayFail = TRUE
  PageSize = 8
  MaxCalls = 2
SYMMETRY Symmetry
INVARIANTS
  ResultIsReference
  StubsReachFunction
  ConstStubsWritable
