SPECIFICATION Spec
CONSTANTS
    MaxSentences = 6
    MaxSentence = 4
    Documents <- MCDocuments
    MaxTokens = 5
    OverlapTokens = 3
    MinChunkTokens = 4
INVARIANTS
    Covers
    OverlapFits
    ExcessBounded
CHECK_DEADLOCK FALSE
