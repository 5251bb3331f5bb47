SPECIFICATION FairSpec
CONSTANTS
    p1 = p1
    p2 = p2
    c1 = c1
    Processes <- TwoProcesses
    Comments = {c1}
    MaxRevisions = 3
    MaxCrashes = 2
INVARIANTS
    StatusesAgree
    SuccessApproved
    RevisionBudget
    VersionsChain
PROPERTIES
    HistorySound
    ImplementsLifecycle
    InterruptionEnds
