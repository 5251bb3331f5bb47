SPECIFICATION FairTogether
CONSTANTS
    w1 = w1
    c1 = c1
    h1 = h1
    Workers = {w1}
    Commands = {c1}
    Humans = {h1}
    MaxJobs = 1
    Priorities = {0}
    Limits = {1}
    Durations = {1}
    MaxClaims = 3
    MaxReplays = 0
    MaxStarts = 2
    MaxDeaths = 1
    MaxInterrupts = 1
    MaxFaults = 1
    MaxTogether = 2
INVARIANT OneExecutor
PROPERTIES
    LostNeverSettles
    CheckpointKept
    ImplementsQueue
    DeliveryCompletes
