SPECIFICATION Spec
CONSTANTS
    NumNodes = 2
    NodeInputs <- TwoNodeInputs
    NodeOutputs <- TwoNodeOutputs
    TuningInputs <- TwoNodeTuning
    Deleted <- TwoNodeDeleted
    NumPreps = 4
    NodeOf <- PrepNode
    Sources <- PrepSources
    Dependencies <- PrepDependencies
    Consumed <- PrepConsumed
    Memory <- PrepMemory
    Initializers <- Weights
    Consumable <- Weights
    RequiredInputs <- External
    Untyped = {1, 2}
    SharedBytes = 1
    Unlimited = 1000
    InitializerOrder <- Order
    Externals <- SomeExternals
    Bytes <- WeightBytes
    Reservation = 8
    Limits = {11, 12, 21}
INVARIANTS
    NothingForgotten
    SourcesAccounted
    NodeReady
    AdmittedBytes
    ReaderHandoff
PROPERTIES
    CallReturns
CHECK_DEADLOCK FALSE
