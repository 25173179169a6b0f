SPECIFICATION FairSpec
CONSTANTS
    Jobs = {j1, j2}
    None = none
    Size = 1
    PerWorker = 1
    Generations = 2
    MaxTrouble = 0
INVARIANTS OneProcessPerSlot CloseReachesWorkers
PROPERTIES CallsReturn CloseEnds
CHECK_DEADLOCK FALSE
