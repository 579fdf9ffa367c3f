\* Every text of five characters, read in lines of up to four.
CONSTANTS
    Chars = {"EXIT", "SELECT", "7", "-", "'", "SP", "LF", ";", "=", "!", "<", ">", "?"}
    LineLimit = 4
    MaxTyped = 5
SPECIFICATION Spec
INVARIANTS
    ExecutedAsTyped
    TokensAreRight
