SPECIFICATION Spec
CONSTANTS
  None = None
  AnyValue = AnyValue
  DefaultValue = DefaultValue
  Gone = Gone
  wordpress_precise = wordpress_precise
  wordpress_oneiric = wordpress_oneiric
  Charm <- MCCharm
  Content = {sha1, sha2}
  Series = {"precise", "oneiric"}
  default_series = "precise"
  DefaultInstanceType = None
  Client = {c1, c2}
  Service = {wordpress}
  Unit = {0, 1}
  Machine = {0, 1, 2}
  Typed <- MCTyped
  MaxSets = 2
INVARIANTS
  OverridesHonoured
  UnitsFitInstances
  ServicesHaveTheirCharm
SYMMETRY Symmetry
CHECK_DEADLOCK FALSE
