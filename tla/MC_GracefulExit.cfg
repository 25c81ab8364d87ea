SPECIFICATION ExitFairSpec
CONSTANTS
    Requests = {r1, r2, r3}
    QueueSize = 1
    BatchSize = 1
CHECK_DEADLOCK FALSE
INVARIANTS
    NilMeansGraceful
    OnShutdownAfterDrain
    LossIsReported
    LeftOpenOnlyByFailure
    RefusedOnlyAfterTimeout
PROPERTIES
    ShutdownTerminates
    NothingLeftBehind
