CONSTANTS
    r2 = r2
    r3 = r3
    a = a
    b = b
    h1 = h1
    h2 = h2
    NoRow = NoRow
    NoDoc = NoDoc
    NoHash = NoHash
    SourceRows <- MCSourceRows
    Contents <- MCContents
    Stored <- MCStored
    FileRows <- MCFileRows
    ProviderResults <- MCOneProviderResult
    Invalid = {}
    Hashes <- MCOneHash
    Malformed <- MCNoneMalformed
    Payloads <- MCWaitingPayloads
    Kinds = {"table", "provider"}
    Docs = {d1, d2}
    Requests = {p1, p2, p3, p4, p5}
    Exclusive = TRUE
    Faults = TRUE
    Crashes = TRUE
SPECIFICATION Spec
SYMMETRY Symmetry
INVARIANTS
    TypeOK
    DuplicateNeedsConsent
    NoDoubleImport
    NoOrphanRecords
PROPERTIES
    PromiseKept
    ImportedMeansResolved
CHECK_DEADLOCK FALSE
