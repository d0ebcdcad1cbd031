SPECIFICATION Spec
CONSTANTS
    Threads = {t1, t2}
    Requests <- MCPages
    MaxStops = 0
    CandidateK = 2
    RerankTopK = 2
    ChunkId = {a0, b0}
    Docs = {A, B}
    DocOf <- MCDocOf
    RankOf <- MCRankTwo
    None = None
    a0 = a0
    b0 = b0
    A = A
    B = B
    q = q
SYMMETRY Symmetry
INVARIANTS
    TypeOK
    ReplyAnswersRequest
    PagesAreDisjoint
    MissSeesAcked
