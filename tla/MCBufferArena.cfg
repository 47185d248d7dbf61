SPECIFICATION Spec
CONSTANTS
    Kinds = {"simple", "execution", "io"}
    Capacity = 2
    MaxSlots = 3
    MaxBytes = 3
    Caps = {0, 3, 5}
INVARIANTS
    SlotsPartitioned
    RetentionExact
    HandlesExclusive
CHECK_DEADLOCK FALSE
