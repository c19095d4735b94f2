SPECIFICATION Spec
CHECK_DEADLOCK FALSE
CONSTANTS
    None = None
    EndShiftEmitsToConfirm = 2
    Bound <- PageBound
INVARIANTS
    PageCurrent
    HeardInOrder
    MissedOnlyByRace
    BootedPageHearsEnd
PROPERTIES
    ImplementsMirror
