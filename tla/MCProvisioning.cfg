SPECIFICATION FairSpec
CONSTANTS
    MaxMachine = 2
    MaxInstance = 5
    MaxTrouble = 2
    None = None
INVARIANTS
    OneInstancePerMachine
PROPERTIES
    UsedInstancesKept
    EventuallyProvisioned
CHECK_DEADLOCK FALSE
