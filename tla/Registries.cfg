SPECIFICATION AllSpec
CHECK_DEADLOCK FALSE
CONSTANTS
  a1 = a1
  a2 = a2
  a3 = a3
  s1 = s1
  s2 = s2
  v1 = v1
  v2 = v2
  NoAddr = NoAddr
  Threads = {t1, t2}
  Addr <- TwoAddr
  Page <- TwoPages
  MaxBps = 2
  Serialized = TRUE
  CallbackCalls = {"ReArm", "Remove"}
  Duplicates = FALSE
INVARIANTS
  AllTypeOK
  CodeOwned
  OneShot
  InitMeansStarted
  
  
  LoadNotifiesAll
PROPERTIES
  GuardSettles
