SPECIFICATION RegistrySpec
CONSTANTS
    Sessions = {s1, s2}
    Keys = {serial, k1, k2}
    Multithreaded = {k1, k2}
    Capacity = 2
    ExecutorNames = {e1, e2, e3, e4}
    MaxForks = 1
SYMMETRY Symmetric
INVARIANTS
    CapacityHeld
    OneExecutorPerKey
    ThreadsAreLocal
PROPERTIES
    ExhaustionJustified
