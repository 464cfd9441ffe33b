\* Every command of MCValidation, and any of its steps in every store.
SPECIFICATION Spec
CONSTANTS
  None = None
  Broken = Broken
  NoOperation = NoOperation
  Words <- MCWords
  Names <- MCNames
  Functions <- MCFunctions
  Numerals = {"1"}
  Dates = {"date"}
  Upper <- MCUpper
  Lower <- MCLower
  Codes = {404, 503}
  Operations = {"list", "get", "ghost"}
  Specs <- MCSpecs
  Commands <- MCCommands
  Stores <- MCStores
INVARIANTS
  EveryFaultIsReported
  AcceptedStepsAreSent
  RejectedStepsAreNeverSent
  PathsAreFilledIn
