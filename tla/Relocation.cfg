SPECIFICATION AllSpec
CHECK_DEADLOCK FALSE
CONSTANTS
  Programs <- AllPrograms
  Origin = 1000
  Relocated = 5000
  Near = 9000
  PatchSize = 6
  MaxSize = 64
  NearMayFail = FALSE
INVARIANTS
  X86DecodesExactly
  X86SameBehaviour
  ArmSameBehaviour
  HandlerSeesCaller
  ResumesCaller
