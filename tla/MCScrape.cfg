SPECIFICATION Spec
CONSTANTS
    NumCalls = 3
    MaxBatch = 2
    Plan <- MCPlan
    Series <- MCSeries
    ErrKeys <- MCErrKeys
    LossKeys <- MCLossKeys
    Blocks = {1, 2}
    Forks = {"main", "side"}
    MaxAttempts = 2
CHECK_DEADLOCK FALSE
INVARIANTS
    TypeOK
    ResultsAligned
    ChunksMatchPlan
    AttemptsAccounted
    GaugeOfOwnCall
    PageCoherent
    PublishedAll
    WarnedOnce
    OneChainState
PROPERTIES
    FailureLeavesNoTrace
    ImplementsBoard
    ScrapeEnds
