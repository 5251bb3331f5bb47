SPECIFICATION FairSpec
CONSTANTS
    p1 = p1
    p2 = p2
    c1 = c1
    c2 = c2
    x1 = x1
    Processes <- TwoProcesses
    Folders = {"f"}
    Contents = {c1}
    Ids = {}
    Moving = {1}
    MaxEdits = 2
    MaxCrashes = 1
    MaxFailures = 1
    MaxClaims = 2
INVARIANTS
    NeverStranded
    CreatedAsReceived
PROPERTIES
    FinishedNotReclaimed
    RestoredEventRuns
