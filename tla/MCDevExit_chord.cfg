SPECIFICATION FairSpec
CHECK_DEADLOCK FALSE
CONSTANTS
    None = None
    HoldTime = 2
    CanaryTime = 2
    ProbeTime = 4
    Bound <- ChordBound
INVARIANTS
    FiresOnlyAfterHold
PROPERTIES
    HeldChordExits
