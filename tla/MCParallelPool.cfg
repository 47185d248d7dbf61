SPECIFICATION Spec
CONSTANTS
    Callers = {c1, c2}
    NumWorkers = 2
    MaxCalls = 3
    NoOne = NoOne
SYMMETRY CallerSymmetry
INVARIANTS
    ExactlyOnce
    PayloadAlive
    RemainingExact
    NoSleepingParticipant
PROPERTIES
    ImplementsService
