SPECIFICATION PersistenceSpec
CONSTANTS
    None = None
    Bound <- CutClaim
    LogBound <- NoRecords
PROPERTIES LastTapSurvives
