SPECIFICATION Spec
CONSTANTS
    Docs = {d1, d2}
    Nodes = 2
CHECK_DEADLOCK FALSE
INVARIANT UnreachableMeansTried
