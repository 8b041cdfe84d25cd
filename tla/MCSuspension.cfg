SPECIFICATION FairSpec
CONSTANTS
  Owner = owner
  Fires = {f1, f2}
  Evictors = {e1}
INVARIANTS
  QuietWhileMoved
  ReleasedOnceAndIdle
  NothingLeaks
  NoStrayFence
PROPERTIES
  ReleaseCompletes
  QuiesceEnds
CHECK_DEADLOCK FALSE
