SPECIFICATION FairSpec
CONSTANTS
    None = None
    MaxHooks = 3
    Absent = {2}
    MaxStarts = 3
    Prompt = FALSE
    MaxDebugs = 1
INVARIANTS OwnContext PausedMeansPaused
PROPERTIES EveryHookAnswered
CHECK_DEADLOCK FALSE
