SPECIFICATION Spec
CONSTANTS
    Threads = {t1, t2}
    Executors = {plain, bounded}
    Bounded = {bounded}
    Pinned = {plain}
    EffectiveThreads = 3
    MaxTotal = 3
    MaxCalls = 3
    MaxDepth = 3
    None = None
SYMMETRY Symmetric
CHECK_DEADLOCK FALSE
INVARIANTS
    EachIterationOnce
    BindingsRestored
    CountersConsistent
