SPECIFICATION Spec
CONSTANTS
  Jobs <- OneJob
  Workers <- OneWorker
  Contents <- TwoContents
  Versions <- MCVersions
  DefaultVersion = "v0"
  VersionOf <- MCVersionOf
  NoHash = NoHash
  HealthFailed = HealthFailed
  Workspaces <- RevertWorkspaces
  NoTree = NoTree
  BareTree = BareTree
  TornTree = TornTree
  Stopped = Stopped
  Rank <- ByName
  RestartPolicy <- Never
  RestartGlobs <- NoGlobs
  ReloadGlobs <- ConfGlob
  HookPaths <- NoPaths
  Manifest <- MCManifest
  MaxConcurrentStarts <- NoLimit
  MaxConcurrentRestarts <- OneByOne
  MaxConcurrentStops <- OneByOne
  HardCap = 10
  Filters <- Unfiltered
  Forces <- NoForce
  Faults <- NoFaults
  MaxCommands = 4
INVARIANT NeverPolicySyncs
CHECK_DEADLOCK FALSE
