SPECIFICATION FairSpec
CONSTANTS
    Callers = {c1, c2}
    p1 = p1
    p2 = p2
    Pools <- TwoPools
    NumWorkers <- UnequalWorkers
    MaxBlocks = 2
    MaxDepth = 2
    MaxNested = 1
    None = None
PROPERTIES
    CallReturns
