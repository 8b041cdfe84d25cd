SPECIFICATION Spec
CONSTANTS
  Tokens = {1}
  PageSize = 2
  NumPages = 3
  NumSlots = 1
  MaxSets = 2
  MaxFires = 2
  MaxRows = 2
  MaxLen = 4
  MaxMoves = 3
  Rewrites = TRUE
  Refusals = {"stale", "late"}
INVARIANTS
  SlotsKept
  AnchorsExact
  FlatIsCurrent
  RunningIsResident
  HeldRunStays
  OneMovePerPage
PROPERTIES
  ImplementsCustody
CHECK_DEADLOCK FALSE
