SPECIFICATION Spec
CONSTANTS
  Owner = owner
  Fires = {f1}
  Evictors = {e1, e2}
SYMMETRY Symmetry
INVARIANT QuietWhileMoved
CHECK_DEADLOCK FALSE
