SPECIFICATION FairSpec
CONSTANTS
    None = None
    Capacity = 4
INVARIANTS
    PassIsEarned
PROPERTIES
    Ends
CHECK_DEADLOCK FALSE
