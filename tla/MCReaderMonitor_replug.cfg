SPECIFICATION Spec
CONSTANTS
    None = None
    r1 = r1
    r2 = r2
    Readers <- OneReader
    Capacity = 2
    Bound <- ReplugClaim
INVARIANTS OnceUntilLifted
