SPECIFICATION FairSpec
CONSTANTS
    Unit = {u1, u2}
    MaxFaults = 1
    MaxFalseStarts = 1
    NoOp = NoOp
INVARIANTS
    Announced
    UnitsRunWholeCharms
PROPERTIES
    AssignedUnitsRun
    DepartedUnitsGo
CHECK_DEADLOCK FALSE
