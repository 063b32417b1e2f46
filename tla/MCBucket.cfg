SPECIFICATION MCSpec
CONSTANTS
  Allocations <- FourAllocations
  Requested <- AnyCapacity
  DefaultSemaphoreCapacity = 1
  MaxSemaphoreCapacity = 2
  Faults <- AllFaults
  Targets = {"w1", "w2"}
  RetentionCount = 1
  MaxGeneration = 3
  MaxCommits = 5
  Processes = {"p1", "p2"}
  LatestSchemaVersion = 8
  OldestMigratable = 2
  MaxIds = 4
  Hashes = {h1, h2}
  Consumers = {"c1"}
  RevisionRetention = 1
  HistoryRetention = 1
  MarkerRetention = 1
  Failures = {"cancelled"}
  MaxEvents = 6
INVARIANTS
  MutualExclusion
  NoIdleSlot
  
  FiresOncePerOpening
PROPERTIES
  BackupsSurvive
  GcKeepsWhatIsNamed
SYMMETRY Interchangeable
CHECK_DEADLOCK FALSE
