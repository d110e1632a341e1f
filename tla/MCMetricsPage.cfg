SPECIFICATION PageSpec
CONSTANTS
    NumCalls = 2
    MaxBatch = 1
    Plan <- MCPlan
    Series = {"supply", "paused"}
    ErrKeys = {"info"}
    LossKeys = {"supply:a", "paused:a"}
    Blocks = {1, 2}
    Forks = {"main"}
    MaxAttempts = 2
CHECK_DEADLOCK FALSE
INVARIANTS
    UntornPageCoherent
    TornBetweenTwo
PROPERTIES
    PagesNeverGoBack
