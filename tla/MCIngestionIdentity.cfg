SPECIFICATION Spec
CONSTANTS
    p1 = p1
    p2 = p2
    c1 = c1
    c2 = c2
    x1 = x1
    Processes <- TwoProcesses
    Folders = {"f", "g"}
    Contents <- TwoContents
    Ids <- OneId
    Moving = {}
    MaxEdits = 0
    MaxCrashes = 1
    MaxFailures = 0
    MaxClaims = 1
SYMMETRY Interchangeable
INVARIANT IdentityHolds
PROPERTY BindingsKept
