\* A failing write of the index.
CONSTANTS
    MaxInt = 7
    InitialRows <- OneRow
    ExplicitIds = {2, 3}
    AutoId = AutoId
    Lengths = {"short"}
    Copies <- NoCopies
    MaxRows = 4
    MaxClock = 1
    Failures = {"kill", "idx"}
SPECIFICATION Spec
INVARIANT TrustedIndexIsRight
