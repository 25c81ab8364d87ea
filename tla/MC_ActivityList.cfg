SPECIFICATION Spec
CONSTANTS
    Docs = {d1, d2, d3}
    Traces = {t1, t2}
    Unset = Unset
    Garbage = Garbage
    IntMax = 15
    DefaultPageSize = 1
    MaxPageSize = 2
    MaxResultWindow = 5
    AggTermsSize = 2
    DefaultTimeWindow = 1
    NanosPerMilli = 2
    MaxTime = 3
    Nums <- WalkNums
    Sizes <- WalkSizes
SYMMETRY Symmetry
CHECK_DEADLOCK FALSE
INVARIANTS
    WalkShowsAllOnce
    NoRowMissed
    ServerErrorsAreNotTheClients
