SPECIFICATION PersistenceSpec
CONSTANTS
    None = None
    Bound <- NoSaves
    LogBound <- TailClaim
INVARIANTS OnlyTheTailIsTorn
