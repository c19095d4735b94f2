SPECIFICATION Spec
CONSTANTS
    b1 = b1
    b2 = b2
    c1 = c1
    c2 = c2
    None = None
    Batches <- OneBatch
    Chips <- OneChip
    Total <- TotalOne
    OverrunPolicy = "block"
    Conformance = TRUE
    Bound <- ConsoleBound
INVARIANTS
    BlockBound
    BootCacheFresh
