SPECIFICATION Spec
CONSTANTS
  writer = writer
  keeper = keeper
  Clients = {writer, keeper}
  Menu <- StoreAndForget
  MaxIds = 3
  Stored = 0
  Entities = {e1}
  NoEntity = NoEntity
  Texts = {t1}
  UserEdgeTypes = {}
  SnapshotTargets = FALSE
  SnapshotSources = FALSE
  ClockSteps = {1}
  MaxCalls = 3
  MaxFaults = 0
  MaxSnaps = 2
  MaxForget = 2
  Ttl = 1
  SweepBatch = 3
  RecallWidth = 1
  None = None
CHECK_DEADLOCK FALSE
INVARIANT
  ForgottenLeavesNoTrace
