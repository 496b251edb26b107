SPECIFICATION Spec
SYMMETRY Symmetry
CONSTANTS
    r1 = r1
    c1 = c1
    c2 = c2
    address = address
    key = key
    Unset = Unset
    None = None
    Relations = {r1}
    Keys = {address, key}
    MaxValue = 1
    Address = address
    Clients = {c1, c2}
    MaxHooks = 2
    MaxJoins = 1
    MaxChanges = 2
INVARIANTS AcknowledgedChangesWritten ConsistentView
PROPERTY ImplementsSettingsStore
CHECK_DEADLOCK FALSE
