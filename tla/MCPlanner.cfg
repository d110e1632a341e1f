SPECIFICATION Spec
CONSTANTS
    Configs <- MCConfigs
    FunctionName <- MCFunctionName
    OutputNames <- MCOutputNames
    BadAddresses = {"0xzz"}
    BadArgs <- MCBadArgs
    BadKeys = {"zone-id"}
    BadWords = {"my-p"}
CHECK_DEADLOCK FALSE
INVARIANTS
    ReadsOwnCall
    PlanComplete
    MostSpecificWins
    UniformSchema
    HelpConflictsFound
