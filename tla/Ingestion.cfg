SPECIFICATION FairSpec
CONSTANTS
    Clis = {c1}
    Uploads = {u1, u2}
    BatchSize = 1
    MaxRetries = 2
    MaxStops = 1
    Warmup = TRUE
    ChunkId = {a0, a1}
    Corpora = {Long, Short}
    ChunksOf <- MCChunksOf
    Missing = Missing
    Torn = Torn
    EmptyIndex = EmptyIndex
    NotLoaded = NotLoaded
    Absent = Absent
    NoCorpus = NoCorpus
    a0 = a0
    a1 = a1
    b0 = b0
    Long = Long
    Short = Short
    Other = Other
INVARIANTS
    IndInv
    SparseBehindDense
    ServedBehindDense
    AckedIsIndexed
    TornExplained
    CreateRaceNeedsATool
    SerialIngestsAgree
PROPERTIES
    ImplementsDurableIndex
    NoLostPoints
    RunsEnd
    ServiceRecovers
CHECK_DEADLOCK FALSE
