SPECIFICATION FairSpec
CHECK_DEADLOCK FALSE
CONSTANTS
    Scenarios  <- MCScenarios
    Predefined <- MCPredefined
    Permits = 2
    MaxRuns = 2
INVARIANTS
    Served
    Settled
    HonoursRequest
    BuiltOnce
    RunsItsOwn
PROPERTY InstallsEnd
