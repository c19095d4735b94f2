SPECIFICATION Spec
CONSTANTS
    c1 = c1
    None = None
    Word = 4
    Chips <- OneChip
    Weights <- SomeWeights
INVARIANTS UpMeansReady FiredAsRequested
PROPERTIES DrawsByWeight
