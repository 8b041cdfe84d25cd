SPECIFICATION FairSpec
CONSTANTS
  Pipelines = {p1, p2}
  Processes = {p1, p2}
  Owner <- OwnPipeline
  Moves = {m1}
  MaxFires = 2
  Depth = 2
  LaunchRunBeforeControl = 1
  ControlRunMax = 2
  Terminates = TRUE
  Stops = TRUE
INVARIANTS
  OnlyTheDrainOvertakes
  
  NotSettledInFlight
PROPERTY
  LiveWorkSettles
CHECK_DEADLOCK FALSE
