SPECIFICATION Spec
CHECK_DEADLOCK FALSE
CONSTANTS
    Scenarios  <- RustHooks
    Predefined <- MCPredefined
    Permits = 1
    MaxRuns = 1
INVARIANT RustEntryInstalled
