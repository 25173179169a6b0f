CONSTANTS
    Tools <- ToolRuns
    MaxTasks = 4
    BufferSize = 1
    BatchSize = 2
    Configs <- StressConfigs
    MaxWorkers = 2
    MaxTicks = 2
    Loads <- GeneratorLoads
    MaxThreads = 2
    TicksPerSecond = 2
    SmallSpec <- TwoNodes
    ImportSize = 2
    ImportRetries = 1
    MaxRuns = 2
    PlanInputs <- MCPlanInputs
    r1 = r1
    r2 = r2
    Requests = {r1, r2}
    Limit <- MCLimit
    ServerConfigs <- MCServerConfigs
    QueueSize = 1
SPECIFICATION Spec
INVARIANTS TypeOK EveryAttemptIsCounted FilesAgreeWithReport ExtremesAreExact
    WritesFollowReads PermitsAreConserved ReportIsTrue PlanIsSound
    PlacesMatchRequests LogIsAccountedFor AnswersArrive
PROPERTIES ToolsEnd ServerLives
CHECK_DEADLOCK FALSE
