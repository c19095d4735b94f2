SPECIFICATION Spec
CONSTANTS
    None = None
    p1 = p1
    p2 = p2
    s1 = s1
    s2 = s2
    t1 = t1
    t2 = t2
    Procs <- TwoProcs
    Sessions <- OneSession
    Taps <- NoTaps
    Launches <- StationsAndGates
INVARIANTS GateHasResults
PROPERTIES FaultStays
CHECK_DEADLOCK FALSE
