SPECIFICATION FairSpec
CONSTANTS
    ssh = ssh
    rdp = rdp
    Plan <- MCPlan
    SSHJobs = {ssh}
    MaxRetries = 0
    MinAttempts = 3
    MaxFailurePercent = 50
    MaxDisconnectPercent = 50
    Errors = {"none", "cancel", "other", "transport", "transportTimeout"}
PROPERTIES
    FailureDuringRampIsNotMaintained
