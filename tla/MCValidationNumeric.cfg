SPECIFICATION Spec
CONSTANTS
    Configs <- MCConfigs
    Abi <- MCAbi
    Invalid = {"1x", "x-y"}
    Unusable = {"x-y"}
CHECK_DEADLOCK FALSE
INVARIANT NumericOnly
