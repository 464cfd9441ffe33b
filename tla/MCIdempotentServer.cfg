\* The webhook server: runs overlap freely, the process restarts once.
SPECIFICATION SafeSpec
CONSTANTS
  None = None
  NoKey = NoKey
  BadKey = BadKey
  EmptyKey = ""
  Keys <- MCKeys
  Scenarios <- MCScenarios
  Requests <- ServerRequests
  KeyOf <- ServerKeyOf
  ScenarioOf <- ServerScenarioOf
  Statuses <- MCStatuses
  Concurrent = TRUE
  MaxRestarts = 1
\* The requests are finitely many: when all are answered nothing is left to do.
CHECK_DEADLOCK FALSE
INVARIANTS
  ReplaysAreFaithful
  QuietKeysAreSettled
PROPERTY
  SettledKeysStaySettled
