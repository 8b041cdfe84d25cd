SPECIFICATION FairSpec
CONSTANTS
  Processes = {1, 2}
  Lanes = {1, 2, 3}
  Owner <- ElderLanes
  Total = 2
  SwapTotal = 2
  HostReserveDivisor = 2
  Needs <- ElderNeeds
  Schedules <- ElderSchedules
  Restartable = {2}
  Chatty = {1}
  MaxAsks = 1
  MaxRestarts = 1
  MaxUpsets = 1
INVARIANTS
  PagesConserved
  OneWayBack
  HoardReturns
PROPERTIES
  NoAskForgotten
  PreemptedReturns
CHECK_DEADLOCK FALSE
