SPECIFICATION Spec
CONSTANTS
  None = None
  wordpress = wordpress
  logging = logging
  juju_info = juju_info
  syslog = syslog
  Implicit = juju_info
  NameRank <- MCNameRank
  local = local
  logs = logs
  cluster = cluster
  MachineId <- MCMachineId
  ServiceId <- MCServiceId
  UnitId <- MCUnitId
  RelationId <- MCRelationId
  ServiceName = {wordpress, logging}
  Interface = {juju_info, syslog}
  RelationName = {juju_info, local, logs, cluster}
  Endpoint <- MCEndpoint
  Subordinate = {logging}
INVARIANTS
  ReferencedServicesExist
  StatusShowsEveryUnit
  ScopedStatusAgrees
  RelationsCanBeNamed
  UnitNamesNeverReused
  NoDuplicateRelations
CHECK_DEADLOCK FALSE
