\* Two deliveries of any kind, one edit of a file, a signal at any time.
SPECIFICATION Spec
CONSTANTS
  None = None
  MaxDeliveries = 2
  Ops = {"pay", "free"}
  Keys = {"k"}
  Unresolved = Unresolved
  Routes <- MCRoutes
  Requests <- MCRequests
  Versions <- MCVersions
  FirstFiles <- MCFirstFiles
  MaxInterval = 2
  Grace = 1
  MaxEdits = 1
INVARIANTS
  AuthenticatedFirst
  OnlyRunsTouchTarget
  NoTurnWasted
PROPERTIES
  TurnsAreSpaced
  SignalStopsServer
