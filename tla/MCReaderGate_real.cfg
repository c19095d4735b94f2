SPECIFICATION GateSpec
CONSTANTS
    None = None
    r1 = r1
    r2 = r2
    Readers <- OneReader
    Capacity = 2
    Bound <- GateBound
INVARIANTS
    PassIsReal
PROPERTIES
    ImplementsProbe
CHECK_DEADLOCK FALSE
