SPECIFICATION AgentSpec
CONSTANTS
    a1 = a1
    r1 = r1
    r2 = r2
    Agents = {a1}
    RunIDs = {r1, r2}
    NoRun = NoRun
    Capabilities <- MCCapabilities
    Requests <- MCRequests
    ssh = ssh
    rdp = rdp
    Plan <- MCPlan
    SSHJobs = {ssh}
    MaxRetries = 1
    MinAttempts = 2
    MaxFailurePercent = 50
    MaxDisconnectPercent = 50
    Errors = {"none", "cancel", "other", "transportTimeout"}
INVARIANTS
    RegistryTypeOK
    SlotMatchesGoroutine
    LoadWithinCapabilities
    CancelPromiseKept
    TerminalCarriesReport
    TypeOK
    ReportIsConsistent
    RetryOutcomesAgree
    CountersAgree
    CompletedRunIsComplete
    LeftoverSessionIsAFailure
PROPERTIES
    CancelFreesAgent
    LifecycleSpec
    RunReturns
