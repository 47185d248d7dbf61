SPECIFICATION UseSpec
CONSTANTS
    Clients = {owner, c1}
    Owner = owner
    MaxThreads = 2
    Jobs = {j1, j2, j3}
    Failing = {j1, j2}
    None = None
CHECK_DEADLOCK FALSE
INVARIANTS
    JobsConserved
    WaitDrains
    FailureReported
    WaitReportsBatch
PROPERTIES
    CallsReturn
    QueuedJobRuns
    BatchCallsReturn
