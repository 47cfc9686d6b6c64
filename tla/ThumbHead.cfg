SPECIFICATION Spec
CONSTANTS
  Heads <- PlainHeads
  Functions <- Fns
  Trampolines <- Above
  Replace = 300000
INVARIANT
  JumpsLoadPc
CHECK_DEADLOCK FALSE
