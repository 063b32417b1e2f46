SPECIFICATION Spec
CONSTANTS
  Jobs <- OneJob
  Workers <- TwoWorkers
  Contents <- TwoContents
  Versions <- MCVersions
  DefaultVersion = "v0"
  VersionOf <- MCVersionOf
  NoHash = NoHash
  HealthFailed = HealthFailed
  Workspaces <- RollingWorkspaces
  NoTree = NoTree
  BareTree = BareTree
  TornTree = TornTree
  Stopped = Stopped
  Rank <- ByName
  RestartPolicy <- Always
  RestartGlobs <- NoGlobs
  ReloadGlobs <- ConfGlob
  HookPaths <- NoPaths
  Manifest <- MCManifest
  MaxConcurrentStarts <- NoLimit
  MaxConcurrentRestarts <- OneByOne
  MaxConcurrentStops <- OneByOne
  HardCap = 10
  Filters <- Unfiltered
  Forces <- NoForce
  Faults <- AllFaults
  MaxCommands = 5
INVARIANTS DeployedJobsConverged PromotedBatchRunsPlan GenerationStamp
PROPERTIES NeverStartsInactive OnlyFailedBatchDemoted
CHECK_DEADLOCK FALSE
