SPECIFICATION Spec
CONSTANTS
    None = None
    EndShiftEmitsToConfirm = 2
    Bound <- EndClaim
INVARIANT EndShiftHeard
