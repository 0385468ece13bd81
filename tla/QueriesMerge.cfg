SPECIFICATION Spec
CONSTANTS
  Directories <- MCDirectories
  Graph <- MCGraph
  IntHalf = 8
CHECK_DEADLOCK FALSE
INVARIANT PredicatesAreInlined
