SPECIFICATION CustodySpec
CONSTANTS
  Pages = {p1, p2, p3}
  MaxSeq = 3
SYMMETRY PagePermutations
INVARIANTS
  TouchedIsHeld
  OneCustody
  NoReuseInFlight
