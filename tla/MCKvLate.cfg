SPECIFICATION Spec
CONSTANTS
  Tokens = {1}
  PageSize = 2
  NumPages = 3
  NumSlots = 0
  MaxSets = 2
  MaxFires = 2
  MaxRows = 1
  MaxLen = 4
  MaxMoves = 0
  Rewrites = FALSE
  Refusals = {"late"}
INVARIANT EpochsSettle
CHECK_DEADLOCK FALSE
