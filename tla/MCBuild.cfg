SPECIFICATION MCSpec
CONSTANTS
  Jobs <- PortJobs
  Names <- PortNames
  NameOrder <- PortOrder
  Prefixed <- PortPrefixed
  Pools <- PortPools
  FixedPorts = {3}
  None = None
  Absent = Absent
  Provisioned = Provisioned
  Hosts <- UpHosts
  Manifests <- MCManifests
  Empty = Empty
  NoCert = NoCert
  Unset = Unset
  Undeclared = Undeclared
  w1 = w1
  w2 = w2
  j1 = j1
  j2 = j2
INVARIANTS
  PortsDistinct
  CertsAreUsable
  DemandedFirst
  
PROPERTIES
  ProvisionedSticky
  
  
  
  RolloutIsComplete
  CatalogAdmits
CHECK_DEADLOCK FALSE
