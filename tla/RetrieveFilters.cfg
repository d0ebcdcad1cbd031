SPECIFICATION FairSpec
CONSTANTS
    Threads = {t1}
    Requests <- MCFilters
    MaxStops = 2
    CandidateK = 1
    RerankTopK = 2
    ChunkId = {a0, b0}
    Docs = {A, B}
    DocOf <- MCDocOf
    RankOf <- MCRankTwo
    None = None
    a0 = a0
    b0 = b0
    A = A
    B = B
    q = q
INVARIANTS
    ReplyAnswersRequest
    MissSeesAcked
    OnlySparseLeaks
PROPERTY RequestsEnd
