CONSTANTS
    canada = canada
    blank = blank
    alberta = alberta
    undated = undated
    c1 = c1
    c2 = c2
    gov = gov
    other = other
    fresh = fresh
    NoVersion = NoVersion
    NoSource = NoSource
    Versions = {1, 2, 3, 4}
    Slots <- MCSlots
    Canon <- MCCanon
    Placed <- MCPlaced
    Year <- MCYear
    Recency <- MCRecency
    Contents = {c1, c2}
    Governmental = {c2}
    Sources = {gov, other, fresh}
    SeededVersions <- MCSeededVersions
    SeededSources <- MCSeededSources
    NewVersions <- MCNewVersions
    Edits <- MCEdits
    Patches <- MCPatches
    Requests = {p1, p2, p3}
    Stops = TRUE
SPECIFICATION Spec
SYMMETRY Symmetry
INVARIANTS
    TypeOK
    OneActivePerSlot
    ActiveAsReviewed
    AuditShowsVersions
    SourcesHold
    SupersededMeansReplaced
PROPERTIES
    ArchivesNoActiveVersion
CHECK_DEADLOCK FALSE
