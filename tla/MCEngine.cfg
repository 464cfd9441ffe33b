\* Every scenario of MCEngine, every answer of the target, every placing of the two deadlines.
SPECIFICATION Spec
CONSTANTS
  Absent = Absent
  Empty = ""
  Vars <- MCVars
  Values <- MCValues
  Number <- MCNumber
  Codes <- MCCodes
  Runs <- MCRuns
  Seeds <- MCSeeds
  Modes <- MCModes
INVARIANTS
  TypeOK
  SkipDiscipline
  PassedMeansAllPassed
  
  VariablesFlow
PROPERTIES
  WorkflowDeadlineHolds
  Terminates
  ImplementsScenarioRun
