SPECIFICATION MCSpec
CONSTANTS
  Jobs <- TwoJobs
  Workers <- OneWorker
  Contents <- TwoContents
  Versions <- MCVersions
  DefaultVersion = "v0"
  VersionOf <- MCVersionOf
  NoHash = NoHash
  HealthFailed = HealthFailed
  Workspaces <- SharedWorkspaces
  NoTree = NoTree
  BareTree = BareTree
  TornTree = TornTree
  Stopped = Stopped
  Rank <- ByName
  RestartPolicy <- Always
  RestartGlobs <- NoGlobs
  ReloadGlobs <- NoGlobs
  HookPaths <- NoPaths
  Manifest <- MCManifest
  MaxConcurrentStarts <- NoLimit
  MaxConcurrentRestarts <- OneByOne
  MaxConcurrentStops <- OneByOne
  HardCap = 10
  Filters <- EachJob
  Forces <- NoForce
  Faults <- AllFaults
  MaxCommands = 4
  None = None
INVARIANTS
  FilterConfinesTransaction
  DependencyOrder
  HealthIsTrue
  PinsAreTrusted
PROPERTIES
  FilterConfinesLifecycle
  SignaturesAreTrue
CHECK_DEADLOCK FALSE
