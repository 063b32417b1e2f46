SPECIFICATION MCSpec
CONSTANTS
  Jobs <- OneJob
  Workers <- TwoWorkers
  Contents <- TwoContents
  Versions <- MCVersions
  DefaultVersion = "v0"
  VersionOf <- MCVersionOf
  NoHash = NoHash
  HealthFailed = HealthFailed
  Workspaces <- RemoveWorkspaces
  NoTree = NoTree
  BareTree = BareTree
  TornTree = TornTree
  Stopped = Stopped
  Rank <- ByName
  RestartPolicy <- Always
  RestartGlobs <- NoGlobs
  ReloadGlobs <- ConfGlob
  HookPaths <- NoPaths
  Manifest <- MCManifest
  MaxConcurrentStarts <- NoLimit
  MaxConcurrentRestarts <- OneByOne
  MaxConcurrentStops <- OneByOne
  HardCap = 10
  Filters <- Unfiltered
  Forces <- WithForce
  Faults <- StagingOnly
  MaxCommands = 7
  ControlFilters <- AllOrFirst
  ControlFaults = TRUE
INVARIANTS CleanRunConverges
PROPERTIES GcLeavesNothingBehind OperationsConfined Announced
CHECK_DEADLOCK FALSE
