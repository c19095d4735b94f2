SPECIFICATION PersistenceSpec
CONSTANTS
    None = None
    Bound <- FilesBound
    LogBound <- RecordsBound
INVARIANTS NeverTorn RecordedBeforeSaved OneSpoiledPerInterruption
PROPERTIES LosesOneSaveToACut ImplementsRegister
