SPECIFICATION Spec
CHECK_DEADLOCK FALSE
CONSTANTS
    None = None
    EndShiftEmitsToConfirm = 2
    Bound <- RaceClaim
INVARIANT NothingDropped
