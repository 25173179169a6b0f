SPECIFICATION ControllerSpec
CONSTANTS
    a1 = a1
    a2 = a2
    a3 = a3
    r1 = r1
    r2 = r2
    Agents = {a1, a2, a3}
    RunIDs = {r1, r2}
    NoRun = NoRun
    RunID = r1
    StartDelay = TRUE
    MaxFaults = 0
    AgentSeq <- MCAgentSeq
    Assignment <- MCAssignment
    Capabilities <- MCCapabilities
    Requests <- MCRequests
    ForeignRequests <- MCForeignRequests
INVARIANTS
    WaitsForEveryAgent
