CONSTANTS
    good = good
    noProvince = noProvince
    blank = blank
    NoRow = NoRow
    NoDoc = NoDoc
    Unstaged = Unstaged
    SourceRows <- MCTwoRows
    Sheets <- MCOneSheet
    Contents <- MCContents
    Stored <- MCStored
    Evaluation <- MCEvaluation
    Invalid = {blank}
    Length <- MCLength
    Listed <- MCListed
    Saves <- MCSaves
    Confirms <- MCConfirms
    Docs = {1, 2}
    Requests = {p1, p2, p3, p4}
    Exclusive = FALSE
SPECIFICATION Spec
SYMMETRY Symmetry
INVARIANTS
    StagedRowImportedOnce
    DeadlockTakesTwoOrders
    BatchIsSettled
PROPERTIES
    EligibleRowsAreImported
CHECK_DEADLOCK FALSE
