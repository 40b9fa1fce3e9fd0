CONSTANTS
    good = good
    noProvince = noProvince
    blank = blank
    NoRow = NoRow
    NoDoc = NoDoc
    Unstaged = Unstaged
    SourceRows <- MCTwoRows
    Sheets <- MCOneSheet
    Contents <- MCContents
    Stored <- MCStored
    Evaluation <- MCEvaluation
    Invalid = {blank}
    Length <- MCLength
    Listed <- MCListed
    Saves <- MCFewSaves
    Confirms <- MCFewConfirms
    Docs = {1}
    Requests = {p1, p2, p3}
    Exclusive = TRUE
SPECIFICATION Spec
INVARIANTS
    ImportedMeansEverything
CHECK_DEADLOCK FALSE
