SPECIFICATION FairSpec
CONSTANTS
    Threads = {t1}
    Contexts = {x1, x2}
    AllocatorOf <- OneAllocator
    Tasks = {k1}
    Waiters = {w1}
    Owners = {o1, o2, o3}
    Rows = {a, b}
    InitialCapacity = 2
    MaxRows = 2
    MaxViews = 1
    None = None
    Client = Client
    NoCall = NoCall
    Plain = Plain
    Done = Done
INVARIANTS
    SnapshotStable
PROPERTIES
    ImplementsService
    WaitReturns
