SPECIFICATION FairSpec
CONSTANTS
    None = None
    r1 = r1
    r2 = r2
    Readers <- TwoReaders
    Capacity = 1
    Bound <- MonitorBound
INVARIANTS
    PresenceFirst
    NoSpuriousTap
    WrongOnlyIfMoved
PROPERTIES
    PresenceConverges
    TapNoticed
