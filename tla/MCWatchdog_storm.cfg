SPECIFICATION FairSpec
CHECK_DEADLOCK FALSE
CONSTANTS
    Window = 6
    Limit = 3
    HeartbeatLimit = 3
    LoadTime = 2
    Bound <- StormBound
INVARIANTS
    StormCap
    AttemptsHaveCauses
PROPERTIES
    SilenceAnswered
