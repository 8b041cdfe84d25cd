SPECIFICATION FairSpec
CONSTANTS
    Tasks = {t1, t2}
    Kinds = {"completion", "channel"}
    MaxSlots = 1
    MaxOwed = 3
    MaxGen = 3
INVARIANTS
    SlotsConserved
    StaleIdsReachNothing
    ReusedSlotIsClean
    NoLostWakeup
PROPERTIES
    EveryWaitEnds
CHECK_DEADLOCK FALSE
