\* Header limit 14, body limit 30: buffer of 45 bytes, recv of at most 9.
CONSTANTS
    Inputs <- MCInputs
    NoText = NoText
    Tables <- MCTables
    Errors <- MCErrors
    HeaderLimit = 14
    MaxBody = 30
    MaxChunk = 9
    MaxMethod = 2
    SizeModulus = 64
SPECIFICATION ExchangeSpec
INVARIANTS
    ChunkingIrrelevant
    BufferHolds
    SqlTextSurvives
    ReplyCarriesAnswer
