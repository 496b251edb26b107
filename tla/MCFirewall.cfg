SPECIFICATION Spec
CONSTANTS
    Service = {s}
    Unit = {u1}
    Machine = {m}
    Port = {p}
    ServiceOf <- OneService
    MaxExposed = 2
    MaxChanges = 5
    MaxPasses = 1
    None = None
INVARIANTS
    PortsFollowPolicy
    UnitsWatched
CHECK_DEADLOCK FALSE
