CONSTANTS
    a = a
    b = b
    Task = {a, b}
    Version <- MCVersion
    Wants <- MCWants
    World <- MCWorld
    MaxFaults = 2

SPECIFICATION Spec

INVARIANTS
    GivenToolchainRuns
    AlteredOnlyIfAllowed
    FetchesOnlyWhatIsMissing
    ConfigurationHonoured

PROPERTIES
    InstalledStays
    TasksEnd
