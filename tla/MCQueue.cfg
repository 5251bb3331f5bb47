SPECIFICATION Spec
CONSTANTS
    MaxJobs = 1
    Priorities = {0}
    Limits = {1, 2}
    Durations = {1, 2}
    MaxClaims = 2
    MaxReplays = 1
    Failures = {}
INVARIANTS
    BudgetAccounting
    RecordsAgree
PROPERTIES
    LeaseExclusive
    LeaseNeverRevived
    RunPrevails
    HistoryKept
