SPECIFICATION Spec
CONSTANTS
    MaxJobs = 1
    Priorities = {0}
    Limits = {1}
    Durations = {1}
    MaxClaims = 1
    MaxReplays = 0
    Failures = {}
INVARIANT LossNotedOnce
