\* The walk over every small model.
SPECIFICATION Spec
CONSTANTS
  Ids <- MCIds
  Links <- MCLinks
  Models <- MCModels
  Starts <- MCStarts
  Depths <- MCDepths
INVARIANTS
  PathsExplain
  WalkIsExact
  WalkIsShortest
