SPECIFICATION FairSpec
CONSTANTS
    Callers = {c1}
    NumWorkers = 2
    MaxCalls = 2
    NoOne = NoOne
PROPERTIES
    RunReturns
    StopTerminates
