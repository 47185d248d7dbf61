SPECIFICATION Spec
CONSTANTS
    Clients = {owner, c1}
    Owner = owner
    MaxThreads = 0
    Jobs = {j1, j2}
    Failing = {j1}
    None = None
CHECK_DEADLOCK FALSE
INVARIANTS
    WaitIdleDrains
