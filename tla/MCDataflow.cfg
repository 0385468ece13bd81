CONSTANTS
  Programs <- MCPrograms
  File <- Unit
  Edits <- MCEdits
  Propagators <- MCPropagators
  Outputs <- MCOutputs
  Copying = FALSE
  NoReturn = {"abort"}
  None = None
SPECIFICATION Spec
INVARIANTS
  ValuesHavePaths
  FlowsAreExecution
  EditedIsFresh
