SPECIFICATION Spec
CONSTANTS
  writer = writer
  keeper = keeper
  Clients = {writer, keeper}
  Menu <- MCMenu
  MaxIds = 3
  Stored = 1
  Entities = {e1}
  NoEntity = NoEntity
  Texts = {t1}
  UserEdgeTypes = {"related_to"}
  SnapshotTargets = FALSE
  SnapshotSources = TRUE
  ClockSteps = {1}
  MaxCalls = 3
  MaxFaults = 1
  MaxSnaps = 1
  MaxForget = 2
  Ttl = 1
  SweepBatch = 2
  RecallWidth = 1
  None = None
CHECK_DEADLOCK FALSE
INVARIANTS
  GraphSymmetric
  SnapshotsNeverIndexed
  NoAcknowledgedMemoryLost
  RevisedSourcesMarked
