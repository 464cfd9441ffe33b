\* The run command: one run after another.
SPECIFICATION Spec
CONSTANTS
  None = None
  NoKey = NoKey
  BadKey = BadKey
  EmptyKey = ""
  Keys <- MCKeys
  Scenarios <- MCScenarios
  Requests <- CommandRequests
  KeyOf <- CommandKeyOf
  ScenarioOf <- CommandScenarioOf
  Statuses <- MCStatuses
  Concurrent = FALSE
  MaxRestarts = 0
\* The requests are finitely many: when all are answered nothing is left to do.
CHECK_DEADLOCK FALSE
INVARIANT
  RepeatRunsDeduped
PROPERTIES
  Returns
  ImplementsDedupedRuns
