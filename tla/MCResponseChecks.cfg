\* Every response to every step of MCResponseChecks, in every mode.
SPECIFICATION Spec
CONSTANTS
  None = None
  Malformed = Malformed
  EmptyBody = EmptyBody
  Exact = 8
  Operations <- MCOperations
  Responses <- MCResponses
  Steps <- MCSteps
  Stores <- MCStores
INVARIANTS
  VerdictIsRight
  CategoryIsJustified
  NoAssertionIsSkipped
