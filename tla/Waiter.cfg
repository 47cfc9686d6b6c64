SPECIFICATION FairSpec
CONSTANTS
  Clients = {c1}
  Workers = {w1, w2}
  Libs = {l1}
  Syms = {s1, s2}
  Timeouts = {0, 1}
  MaxTasks = 2
  MaxTime = 2
  TimeRange = 4
  NoOwner = NoOwner
PROPERTIES
  NoEarlyTimeout
  RequestLifeCycle
  TimeoutFires
  LoadedIsInstalled
