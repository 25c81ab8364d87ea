SPECIFICATION RequestSpec
CONSTANTS
    Requests = {r1, r2}
    Shapes <- MCShapes
    InFile <- MCInFile
    InEnv <- MCInEnv
    MaxDerived = 1
    MaxBroken = 1
CHECK_DEADLOCK FALSE
SYMMETRY Symmetry
INVARIANTS
    LinesShowTheirLogger
    PanicsAreTold
    LinesArrive
