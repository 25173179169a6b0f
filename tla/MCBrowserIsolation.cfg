SPECIFICATION Spec
CONSTANTS
    Jobs = {j1, j2}
    None = none
    Size = 1
    PerWorker = 2
    Generations = 1
    MaxTrouble = 0
INVARIANT SessionsAreIsolated
CHECK_DEADLOCK FALSE
