\* Files copied or edited by hand, rows of any length, failing I/O on index and table.
CONSTANTS
    MaxInt = 7
    InitialRows <- NoRows
    ExplicitIds = {2}
    AutoId = AutoId
    Lengths = {"wide", "long"}
    Copies <- LongerCopy
    MaxRows = 3
    MaxClock = 1
    Failures = {"kill", "idx", "tbl", "edit"}
SPECIFICATION Spec
INVARIANTS
    IndexNeverPointsWrong
    WholeRowsAreFound
