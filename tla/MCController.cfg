SPECIFICATION FairSpec
CONSTANTS
    Workers = {w1, w2}
    Gateways = {g1}
    MaxId = 1
    MaxGatewayId = 0
    MaxRestarts = 1
    None = None
INVARIANTS
    UnfitIsToldAtOnce
    OneWorkerPerIdTillRestart
PROPERTIES
    DeadWorkersLeave
    OnlyTheSupplantedStayAway
CHECK_DEADLOCK FALSE
