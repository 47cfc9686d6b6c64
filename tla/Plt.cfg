SPECIFICATION FairSpec
CHECK_DEADLOCK FALSE
CONSTANTS
  l1 = l1
  l2 = l2
  l3 = l3
  s1 = s1
  Libs <- ThreeLibs
  Syms = {s1}
  Cells <- TwoLibCells
  Patchable <- TwoLibs
  MapsOrder <- ThreeLibsOrder
  NameIn <- ExactNames
  Replaces = {r1, r2, r3}
  Patterns <- BiasedPattern
  MaxSlots = 2
  MaxRules = 1
  Serialized = TRUE
INVARIANTS
  CellsJustified
  OriginChainsEnd
PROPERTIES
  KeepsHooking
