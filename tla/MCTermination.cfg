SPECIFICATION MCSpec
CONSTANTS
  Jobs <- OneJob
  Workers <- TwoWorkers
  Contents <- TwoContents
  Versions <- MCVersions
  DefaultVersion = "v0"
  VersionOf <- MCVersionOf
  NoHash = NoHash
  HealthFailed = HealthFailed
  Workspaces <- RollingWorkspaces
  NoTree = NoTree
  BareTree = BareTree
  TornTree = TornTree
  Stopped = Stopped
  Rank <- ByName
  RestartPolicy <- Always
  RestartGlobs <- NoGlobs
  ReloadGlobs <- ConfGlob
  HookPaths <- NoPaths
  Manifest <- MCManifest
  MaxConcurrentStarts <- NoLimit
  MaxConcurrentRestarts <- OneByOne
  MaxConcurrentStops <- OneByOne
  HardCap = 10
  Filters <- Unfiltered
  Forces <- NoForce
  Faults <- AllFaults
  MaxCommands = 3
  Restorers = {"r1", "r2"}
  Valid = {1, 2}
  MaxEdition = 2
  MaxFaults = 2
INVARIANTS
  RestoreIsAtomic
PROPERTIES
  RunTerminates
  EveryoneServed
  CommandsReturn
  
  RestoreSucceeds
CHECK_DEADLOCK FALSE
