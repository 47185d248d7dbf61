SPECIFICATION Spec
CONSTANTS
    Callers = {c1, c2}
    p1 = p1
    p2 = p2
    Pools <- OnePool
    NumWorkers <- TwoWorkers
    MaxBlocks = 3
    MaxDepth = 2
    MaxNested = 2
    None = None
SYMMETRY Symmetric
INVARIANTS
    TeamExact
    NoOversubscription
    StripesCover
