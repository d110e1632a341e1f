SPECIFICATION Spec
CONSTANTS
    Templates <- MCTemplates
    Env <- MCEnv
    Phrases <- MCPhrases
CHECK_DEADLOCK FALSE
INVARIANTS
    ExpandsAtOnce
    KeepsWords
