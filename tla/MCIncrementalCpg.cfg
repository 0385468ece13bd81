SPECIFICATION Spec
CONSTANTS
  fnF = fnF
  fnG = fnG
  fnH = fnH
  extX = extX
  boxC = boxC
  memP = memP
  memQ = memQ
  Name <- Names
  None = None
  Files <- PairFiles
  NewTexts <- FunctionTexts
  MaxFile = 3
  MaxEdits = 2
  MaxSwallow = 0
  OpenEnded = TRUE
  CachedFlows = TRUE
  Persistent = TRUE
  Lazy = FALSE
  SmallFile = 1
  CompactThreshold = 2
INVARIANTS
  CfgIsFresh
  CallGraphIsLive
  FlowsAreFresh
  CacheIsFresh
CHECK_DEADLOCK FALSE
