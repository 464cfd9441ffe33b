\* propose_change.go:21 against the code.
SPECIFICATION ToolSpec
CONSTANTS
  None = None
  Invalid = Invalid
  NoName = ""
  Repos <- MCFewRepos
  Paths <- MCPaths
  Names <- MCNames
  Routes <- MCRoutes
  OpNames <- MCOpNames
  Calls <- MCCalls
  Ignored <- MCIgnored
  Occurs <- MCOccurs
INVARIANTS
  CoveringWorkflowsAreRecommended
