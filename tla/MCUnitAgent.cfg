SPECIFICATION FairSpec
CONSTANTS
    Faults = {"hook", "prepare", "extract", "torn"}
    MaxCharm = 1
    MaxCrashes = 1
    None = None
INVARIANTS
    AgreesWithState
    UpgradeHookRuns
    PausedWhileReplacing
PROPERTIES
    RequestsAnswered
CHECK_DEADLOCK FALSE
