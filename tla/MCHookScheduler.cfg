SPECIFICATION FairSpec
CONSTANTS
    Unit = {0, 1, 2}
    RemoteUnit = {1}
    Layouts <- Two
    MaxVersion = 2
    MaxPending = 9
    MaxMishaps = 2
    None = None
INVARIANTS
    HooksInOrder
    HooksKnowTheirUnit
    SettledMembershipShown
    SavedIsCurrent
PROPERTIES
    SettingsEventuallyShown
