\* Every command line of MCRunCommand, every outcome of the runs.
SPECIFICATION Spec
CONSTANTS
  None = None
  NoKey = NoKey
  BadKey = BadKey
  EmptyKey = ""
  Keys <- MCKeys
  Tags <- MCTags
  Scenarios <- MCScenarios
  Invocations <- MCInvocations
INVARIANTS
  GreenMeansAllPassed
  SummaryAgreesWithExit
  JUnitRoutesByCategory
