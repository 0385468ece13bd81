CONSTANTS
  Programs <- MCPrograms
  NoReturn = {"abort"}
  None = None
SPECIFICATION Spec
INVARIANTS
  WalksAreSteps
  DominanceIsExecution
  ReachIsExecution
  SccsInOrder
  DeadIsDead
