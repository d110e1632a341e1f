SPECIFICATION ProcessSpec
CONSTANTS
    Timings <- MCTimings
    MaxRequests = 1
CHECK_DEADLOCK FALSE
PROPERTY StartupEnds
