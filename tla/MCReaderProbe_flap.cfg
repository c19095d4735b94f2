SPECIFICATION Spec
CONSTANTS
    None = None
    Capacity = 2
INVARIANTS
    FlapFails
CHECK_DEADLOCK FALSE
