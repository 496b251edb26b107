SPECIFICATION FairSpec
CONSTANTS
    Relation = {r1}
    MaxCrashes = 1
    MaxFailures = 1
    None = None
INVARIANTS
    LifecycleFollowsWorkflow
    NoHooksAfterBroken
CHECK_DEADLOCK FALSE
PROPERTIES
    DeparturesComplete
    ResolutionsHonoured
