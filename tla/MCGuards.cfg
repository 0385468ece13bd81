SPECIFICATION Spec
CONSTANTS
  Bits = 4
  ExponentBits = 2
  None = None
  Cases <- MCCases
  Values <- MCValues
  Carried <- MCCarried
CHECK_DEADLOCK FALSE
INVARIANTS
  ZeroIsExcluded
  ValueIsBounded
  SingleTestsAreExact
  CapacityIsExtent
  FoldingIsExact
