CONSTANTS
  Programs <- MCPrograms
  File <- Unit
  Edits <- MCEdits
  Propagators <- MCPropagators
  Outputs <- MCOutputs
  Copying = TRUE
  NoReturn = {"abort"}
  None = None
SPECIFICATION Spec
INVARIANT CopiedValuesHavePaths
