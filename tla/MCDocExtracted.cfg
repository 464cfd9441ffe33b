\* README.md:641 against the code.
SPECIFICATION Spec
CONSTANTS
  None = None
  Malformed = Malformed
  EmptyBody = EmptyBody
  Exact = 8
  Operations <- MCOperations
  Responses <- MCResponses
  Steps <- MCSteps
  Stores <- MCStores
INVARIANTS
  ExtractedValuesCompareEqual
