SPECIFICATION Spec
CONSTANTS
  InitialRegions = 2
  RegionWidth = 2
  HotRegion = 1
  Baseline = 1
  MaxTransactions = 2
  TickTs = 3
  GcDivisor = 2
  Scopes <- MCScopes
  Unset = Unset
CHECK_DEADLOCK FALSE
INVARIANTS
  EngineValid
  CommitOrder
  ReplicaWatermark
PROPERTIES
  SnapshotsOutliveGc
  AtomicAcrossRegions
  RaftMetricsMatchLogs
