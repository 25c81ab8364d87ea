SPECIFICATION Spec
CONSTANTS
    NoOne = NoOne
    Callers = {p1, p2}
    Closers = {c1, c2}
    MaxCalls = 2
    QueueSize = 1
    BatchSize = 2
CHECK_DEADLOCK FALSE
SYMMETRY Symmetry
INVARIANTS
    NoPanic
    Conservation
    CloseDrains
    LateCallsRefused
    BoundedLoss
