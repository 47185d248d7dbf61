SPECIFICATION Spec
CONSTANTS
    x = x
    w = w
    NumNodes = 3
    Inputs = {x}
    Initializers = {w}
    FirstGraphs <- ThreeNodes
    OutputSets <- SomeOutputs
    Sizes <- SomeSizes
    MaxRewrites = 1
    MaxArity = 3
CHECK_DEADLOCK FALSE
INVARIANTS
    ReadsIntact
    LocksBalanced
    RunsClean
