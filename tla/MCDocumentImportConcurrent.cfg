CONSTANTS
    r2 = r2
    r3 = r3
    a = a
    b = b
    h1 = h1
    h2 = h2
    NoRow = NoRow
    NoDoc = NoDoc
    NoHash = NoHash
    SourceRows <- MCSourceRows
    Contents <- MCContents
    Stored <- MCStored
    FileRows <- MCFileRows
    ProviderResults <- MCProviderResults
    Invalid = {}
    Hashes <- MCTwoHashes
    Malformed <- MCSecondMalformed
    Payloads <- MCFewPayloads
    Kinds = {"table", "json", "provider", "unsupported"}
    Docs = {d1}
    Requests = {p1, p2, p3}
    Exclusive = FALSE
    Faults = FALSE
    Crashes = FALSE
SPECIFICATION FairSpec
INVARIANTS
    DuplicatesOnlyFromOverlap
    ProcessingHasWorker
PROPERTIES
    ProcessingSettles
CHECK_DEADLOCK FALSE
