SPECIFICATION OrderSpec
CONSTANTS
    MaxJobs = 2
    Priorities = {0, 1}
    Limits = {2}
    Durations = {1}
    MaxClaims = 10
    MaxReplays = 0
    Failures = {0, 1, 2, 3, 4, 5, 6, 7, 8}
PROPERTIES
    RequeuedGoesBehind
    FailureBacksOff
