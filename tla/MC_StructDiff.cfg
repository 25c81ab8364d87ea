SPECIFICATION Spec
CONSTANTS
    o1 = o1
    o2 = o2
    o3 = o3
    o4 = o4
    zero = zero
    one = one
    Nil = Nil
    Mask = Mask
    Objects <- MCObjects
    Vals <- MCVals
    Fields <- MCFields
    KindOf <- MCKindOf
    TagOf <- MCTagOf
    Heaps <- MCHeaps
    Roots <- MCRoots
    MaxLevenshteinLen = 2
CHECK_DEADLOCK FALSE
INVARIANTS
    EmptyMeansSame
    DifferencesOnce
    ToIsAtPath
PROPERTY EndsOnCycles
