CONSTANTS
    r2 = r2
    r3 = r3
    a = a
    b = b
    NoRow = NoRow
    SourceRows <- MCSourceRows
    Contents <- MCContents
    Stored <- MCStoredExactly
    ExtractedSets <- MCExtractedSets
    MaxLen = 3
SPECIFICATION Spec
INVARIANTS
    LoopComputesToCreate
    NothingConfirmedIsLost
    ConfirmIsIdempotent
CHECK_DEADLOCK FALSE
