SPECIFICATION Spec
CONSTANTS
    Configs <- MCOwnLabels
    FunctionName <- MCFunctionName
    OutputNames <- MCOutputNames
    BadAddresses = {"0xzz"}
    BadArgs <- MCBadArgs
    BadKeys = {"zone-id"}
    BadWords = {"my-p"}
CHECK_DEADLOCK FALSE
INVARIANT MetricLabelsApplied
