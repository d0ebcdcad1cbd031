SPECIFICATION Spec
CONSTANTS
    Discount <- MCDiscount
    Unit = 120
    Answers <- MCAnswers
    Scores <- MCScores
    FaithfulFrom = 96
    Baseline <- MCBaseline
    Cutoff = 3
    GoldenSets <- MCGoldenSets
    JudgedSets <- MCJudgedSets
    TopKGrids <- MCTopKGrids
    MinScoreGrid <- MCMinScoreGrid
    SweepTopK = 3
INVARIANTS
    CitationsAreGrounded
    MetricsAgree
    TunedTopKIsSmall
    ConfigRestored
PROPERTIES
    EvaluationEnds
CHECK_DEADLOCK FALSE
