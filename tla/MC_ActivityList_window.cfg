SPECIFICATION Spec
CONSTANTS
    Docs = {d1}
    Traces = {t1}
    Unset = Unset
    Garbage = Garbage
    IntMax = 15
    DefaultPageSize = 1
    MaxPageSize = 2
    MaxResultWindow = 3
    AggTermsSize = 1
    DefaultTimeWindow = 2
    NanosPerMilli = 2
    MaxTime = 1
    Nums <- AnyNums
    Sizes <- AnySizes
SYMMETRY Symmetry
CHECK_DEADLOCK FALSE
INVARIANT DeepPagesRefused
