SPECIFICATION Spec
CONSTANTS
  fnF = fnF
  fnG = fnG
  fnH = fnH
  extX = extX
  boxC = boxC
  memP = memP
  memQ = memQ
  Name <- Names
  None = None
  Files <- FewFiles
  NewTexts <- MixedTexts
  MaxFile = 2
  MaxEdits = 1
  MaxSwallow = 1
  OpenEnded = FALSE
  CachedFlows = TRUE
  Persistent = FALSE
  Lazy = TRUE
  SmallFile = 1
  CompactThreshold = 2
INVARIANTS
  AstIsSource
  IdsDistinct
PROPERTIES
  IdsAreStable
CHECK_DEADLOCK FALSE
