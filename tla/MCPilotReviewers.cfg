CONSTANTS
    blank = blank
    standard = standard
    mine = mine
    Mine = Mine
    sample = sample
    other = other
    Requests = {p1, p2, p3}
    Workspaces = {w1, w2}
    NoWorkspace = NoWorkspace
    NoRequest = NoRequest
    Answered = Answered
    NoUser = NoUser
    NotSeeding = NotSeeding
    Names = {sample, other}
    SampleName = sample
    Boundaries <- MCBoundaries
    Blank = blank
    Standard = standard
    Complete <- MCComplete
    Folded <- MCFolded
    Saves <- MCSaves
    Reviewers = {u1}
    Items = {i1, i2}
SPECIFICATION Spec
SYMMETRY Symmetry
INVARIANTS
    TypeOK
    LinksWorkOnce
    SessionsComeFromTheirInvitation
    OneMembership
    CopiesOnlyFromCrowds
    ReviewsAttestWhatWasShown
PROPERTIES
    SeedingRepairs
CHECK_DEADLOCK FALSE
