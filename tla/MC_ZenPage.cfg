SPECIFICATION Spec
CONSTANTS
    Unset = Unset
    Garbage = Garbage
    IntMax = 15
    MaxRows = 5
    LimitsChoices <- MCLimits
    Nums <- MCNums
    Sizes <- MCSizes
INVARIANTS
    AnswerIsPage
    RetryFindsLastRow
