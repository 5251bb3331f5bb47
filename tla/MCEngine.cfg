SPECIFICATION RetriedSpec
CONSTANTS
    MaxAttempts = 2
    Transient <- TransientTasks
    Fatal <- FatalTasks
    MaxVersions = 2
    MaxCrashes = 2
    MaxFailures = 3
INVARIANTS
    ScheduleSound
    FinalVerdict
    VerifiedInputs
PROPERTIES
    SuccessKept
    ImplementsLifecycle
    EngineProgress
CHECK_DEADLOCK FALSE
