SPECIFICATION Spec
CONSTANTS
    Ids = {1, 2, 3, 4}
    Snapshots <- MCSnapshots
    Legs <- MCLegs
    Weights <- MCWeights
    CrossEncoders <- MCCrossEncoders
    TopKs = {1, 3}
    CandidateK = 3
    RerankTopK = 2
    MinScore = 0
    RrfK = 2
    MaxRank = 3
    Scale = 60
INVARIANT RaisedStageHasSpan
CHECK_DEADLOCK FALSE
