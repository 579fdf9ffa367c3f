\* A file with the rows in another order is copied over the table.
CONSTANTS
    MaxInt = 7
    InitialRows <- TwoRows
    ExplicitIds = {1}
    AutoId = AutoId
    Lengths = {"short"}
    Copies <- SwappedCopy
    MaxRows = 2
    MaxClock = 1
    Failures = {"kill"}
SPECIFICATION Spec
INVARIANT IndexNeverPointsWrong
