SPECIFICATION FairServerSpec
CONSTANTS
    r1 = r1
    r2 = r2
    Requests = {r1, r2}
    Limit <- MCLimit
    ServerConfigs <- MCServerConfigs
    QueueSize = 1
PROPERTY ShutdownWaitsForRequests
CHECK_DEADLOCK FALSE
