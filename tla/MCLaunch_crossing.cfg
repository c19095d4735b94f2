SPECIFICATION FairSpec
CONSTANTS
    None = None
    p1 = p1
    p2 = p2
    s1 = s1
    s2 = s2
    t1 = t1
    t2 = t2
    Procs <- TwoProcs
    Sessions <- TwoSessions
    Taps <- TwoTaps
    Launches <- AllLaunches
INVARIANTS NoFalsePass
PROPERTIES LockdownHolds SavedStays QuitEndsArmed
CHECK_DEADLOCK FALSE
