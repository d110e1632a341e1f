SPECIFICATION ExporterSpec
CONSTANTS
    NumCalls = 2
    MaxBatch = 1
    Plan <- MCPlan
    Series = {"supply", "paused"}
    ErrKeys = {"info"}
    LossKeys = {"supply:a", "paused:a"}
    Blocks = {1}
    Forks = {"main"}
    MaxAttempts = 3
    Timings <- MCTimings
    MaxRequests = 0
CHECK_DEADLOCK FALSE
INVARIANTS
    StaleMeansCounted
    CycleWithinDeadline
PROPERTIES
    ScrapesGoOn
