\* Lists of up to three items.
CONSTANTS
    Names <- MCNames
    Values = {v}
    Operators = {"=", "<"}
    None = None
    MaxList = 3
SPECIFICATION Spec
INVARIANTS
    GrammarExactly
    StatementMeansText
