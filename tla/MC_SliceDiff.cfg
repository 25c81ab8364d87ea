SPECIFICATION Spec
CONSTANTS
    Elems = {a, b, c}
    NoElem = NoElem
    MaxLevenshteinLen = 3
    MaxLen = 4
SYMMETRY Symmetry
INVARIANTS
    TypeOK
    ChangesReplay
    ChangesMinimal
    WalkOnCheapestPath
    ChangesInOrder
CHECK_DEADLOCK FALSE
