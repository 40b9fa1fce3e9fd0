CONSTANTS
    ab = ab
    bc = bc
    f1 = f1
    f2 = f2
    NoFactor = NoFactor
    NoInput = NoInput
    NoRecord = NoRecord
    Inputs <- MCInputs
    Electric <- MCInputs
    Relocated <- MCRelocated
    Unhoused <- MCUnhoused
    Factors = {f1, f2}
    Libraries <- MCLibraries
    Scopes <- MCScopes
    Records = {r1}
    Requests = {p1, p2}
SPECIFICATION Spec
SYMMETRY Symmetry
INVARIANTS
    ReportsFollowStatus
CHECK_DEADLOCK FALSE
