SPECIFICATION FairSpec
CONSTANTS
    NoOne = NoOne
    Callers = {p1, p2}
    Closers = {c1}
    MaxCalls = 2
    QueueSize = 1
    BatchSize = 2
CHECK_DEADLOCK FALSE
PROPERTIES
    ImplementsAsyncLog
    EveryEntryFlushed
    CloseTerminates
    AsyncNeverBlocks
