SPECIFICATION Spec
CONSTANTS
  None = None
  wordpress = wordpress
  logging = logging
  juju_info = juju_info
  local = local
  Client = {c1, c2}
  MachineId <- Two
  ServiceId <- Zero
  UnitId <- Two
  RelationId <- Zero
  ServiceName = {wordpress}
  Interface = {juju_info}
  RelationName = {juju_info, local}
  Endpoint <- PeerEndpoints
  Subordinate = {}
  Policy = {"unassigned", "local"}
SYMMETRY Symmetry
PROPERTIES
  ImplementsAtomicTopology
  ReusedMachinesAreUnused
