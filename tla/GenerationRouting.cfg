CONSTANTS
  Sizes      <- MCSizes
  Capacities <- MCCapacities
  MaxTokens = 2
  MaxLoads  = 1

SPECIFICATION Spec

INVARIANTS
  TypeOK
  SnapshotAgrees
  OnlineIsLastResort
  ReportedBackend
  NoStaleCancel

PROPERTIES
  StoppedIsDiscarded
  CallsEnd
