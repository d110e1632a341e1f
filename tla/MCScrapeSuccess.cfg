SPECIFICATION Spec
CONSTANTS
    NumCalls = 3
    MaxBatch = 2
    Plan <- MCPlan
    Series <- MCSeries
    ErrKeys <- MCErrKeys
    LossKeys <- MCLossKeys
    Blocks = {1, 2}
    Forks = {"main"}
    MaxAttempts = 2
CHECK_DEADLOCK FALSE
INVARIANT SuccessMeansNoError
