\* Every request, change and repository of MCImpact.
SPECIFICATION Spec
CONSTANTS
  None = None
  Invalid = Invalid
  NoName = ""
  Repos <- MCRepos
  Paths <- MCPaths
  Names <- MCNames
  Routes <- MCRoutes
  OpNames <- MCOpNames
  Requests <- MCRequests
  Changes <- MCChanges
INVARIANTS
  NothingSilentlyOmitted
  ChangedServicesVerified
  PlanIsJustified
  OwnersAreExact
  GreenVerifyCoversNear
  NoSelectorIgnored
