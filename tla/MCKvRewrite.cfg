SPECIFICATION SpecContents
CONSTANTS
  Tokens = {a, b}
  PageSize = 1
  NumPages = 3
  NumSlots = 0
  MaxSets = 2
  MaxFires = 3
  MaxRows = 1
  MaxLen = 2
  MaxMoves = 0
  Rewrites = TRUE
  Refusals = {}
  ForksInFlight = FALSE
INVARIANTS
  KeysNameContent
CHECK_DEADLOCK FALSE
SYMMETRY TokenSymmetry
