SPECIFICATION Spec
CONSTANTS
  None = None
  wordpress = wordpress
  logging = logging
  juju_info = juju_info
  local = local
  Client = {c1, c2}
  MachineId <- Zero
  ServiceId <- Two
  UnitId <- Two
  RelationId <- Zero
  ServiceName = {wordpress, logging}
  Interface = {juju_info}
  RelationName = {juju_info, local}
  Endpoint <- ContainerEndpoints
  Subordinate = {logging}
  Policy = {"local"}
SYMMETRY Symmetry
PROPERTIES
  ImplementsAtomicTopology
CHECK_DEADLOCK FALSE
