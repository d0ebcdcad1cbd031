SPECIFICATION Spec
CONSTANTS
    Clis = {}
    Uploads = {u1, u2}
    BatchSize = 1
    MaxRetries = 1
    MaxStops = 0
    Warmup = TRUE
    ChunkId = {a0, b0}
    Corpora = {Short, Other}
    ChunksOf <- MCChunksOf
    Missing = Missing
    Torn = Torn
    EmptyIndex = EmptyIndex
    NotLoaded = NotLoaded
    Absent = Absent
    NoCorpus = NoCorpus
    a0 = a0
    a1 = a1
    b0 = b0
    Long = Long
    Short = Short
    Other = Other
INVARIANT IndexesAgree
CHECK_DEADLOCK FALSE
