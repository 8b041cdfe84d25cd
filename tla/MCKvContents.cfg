SPECIFICATION SpecContents
CONSTANTS
  Tokens = {a, b}
  PageSize = 2
  NumPages = 3
  NumSlots = 1
  MaxSets = 2
  MaxFires = 3
  MaxRows = 1
  MaxLen = 3
  MaxMoves = 2
  Rewrites = FALSE
  Refusals = {}
  ForksInFlight = FALSE
INVARIANTS
  ReadsWhatWasWritten
  KeysNameContent
  FiresKeepTheirPages
CHECK_DEADLOCK FALSE
SYMMETRY TokenSymmetry
