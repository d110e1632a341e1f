SPECIFICATION Spec
CONSTANTS
    Timings <- MCTimings
    MaxRequests = 1
CHECK_DEADLOCK FALSE
INVARIANTS
    TypeOK
    OnGrid
    OneScrapePerInterval
    BoundedGap
    StopsWithinTimeout
    ExitReportsServer
PROPERTIES
    ExactlyEveryInterval
    ScrapesRecur
    CancelledExits
