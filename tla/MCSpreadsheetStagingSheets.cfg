CONSTANTS
    good = good
    noProvince = noProvince
    blank = blank
    NoRow = NoRow
    NoDoc = NoDoc
    Unstaged = Unstaged
    SourceRows <- MCOneRow
    Sheets <- MCTwoSheets
    Contents <- MCContents
    Stored <- MCStored
    Evaluation <- MCEvaluation
    Invalid = {blank}
    Length <- MCLength
    Listed <- MCListed
    Saves <- MCSaves
    Confirms <- MCConfirms
    Docs = {1}
    Requests = {p1, p2, p3}
    Exclusive = TRUE
SPECIFICATION Spec
PROPERTIES
    EligibleRowsAreImported
CHECK_DEADLOCK FALSE
