SPECIFICATION FairSpec
CONSTANTS
    Docs = {d1, d2}
    Nodes = 3
CHECK_DEADLOCK FALSE
INVARIANTS
    NilMeansIndexed
    FirstAnswerFinal
    CopiesBounded
PROPERTY BulkTerminates
