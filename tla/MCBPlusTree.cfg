\* Two ids per node: three levels from the fifth id on.
CONSTANTS
    MaxInt = 100
    MaxKeys = 2
    MaxPages = 11
    NumKeys = 6
    Keys <- MCKeys
    ValueOf <- MCValueOf
SPECIFICATION Spec
INVARIANTS
    SearchFindsInserted
    VisitMatchesFilter
    Balanced
    HeaderAgrees
    StaleFileIsDetected
