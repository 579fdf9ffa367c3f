\* Shell and seeder, killed and restarted anywhere; they wrote every row.
CONSTANTS
    MaxInt = 5
    InitialRows <- OneRow
    ExplicitIds = {1, 2, 5}
    AutoId = AutoId
    Lengths = {"short"}
    Copies <- NoCopies
    MaxRows = 4
    MaxClock = 2
    Failures = {"kill"}
    Targets = {2, 4}
    NoSeed = NoSeed
SPECIFICATION SeederSpec
INVARIANTS
    IndexAnswersLikeScan
    TrustedIndexIsRight
    TableStaysLoadable
    AutoIdIsFree
    AckedRowIsFound
    SeededIdsAreRowNumbers
