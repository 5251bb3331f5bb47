SPECIFICATION RetriedSpec
CONSTANTS
    MaxAttempts = 1
    Transient = {}
    Fatal = {}
    MaxVersions = 2
    MaxCrashes = 0
    MaxFailures = 0
PROPERTY RestoredRunRecovers
CHECK_DEADLOCK FALSE
