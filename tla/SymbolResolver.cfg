CONSTANTS
  libc = libc
  libfoo = libfoo
  mylibfoo = mylibfoo
  Threads = {t1, t2}
  Libs = {libc, libfoo, mylibfoo}
  Common = {libc}
  Symtab <- MCSymtab
  Dynsym <- MCDynsym
  Bases <- MCBases
  Started <- MCStarted
  SameName <- Exact
  EndsWith <- Endings
  Within <- Endings
  CacheNames <- CacheExact
  Requests <- MCRequests
  MaxLoads = 3
  MaxCalls = 1
  MayUnload = {libc}
  MayFail = TRUE
SPECIFICATION Spec
INVARIANTS
  NamedImageWins
  NullMeansAbsent
PROPERTIES
  CachePublishedOnce
SYMMETRY ThreadsAlike
CHECK_DEADLOCK FALSE
