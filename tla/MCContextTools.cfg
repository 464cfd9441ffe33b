\* Every call, in every sample repository.
SPECIFICATION ToolSpec
CONSTANTS
  None = None
  Invalid = Invalid
  NoName = ""
  Repos <- MCFewRepos
  Paths <- MCPaths
  Names <- MCNames
  Routes <- MCRoutes
  OpNames <- MCOpNames
  Calls <- MCCalls
  Ignored <- MCIgnored
  Occurs <- MCOccurs
INVARIANTS
  ContextIsExact
  DependenciesAreDeclared
