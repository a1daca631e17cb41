\* Each of the three is violated; -continue shows them all.
SPECIFICATION Spec
CONSTANTS
  writer = writer
  keeper = keeper
  Clients = {writer, keeper}
  Menu <- OneByOne
  MaxIds = 3
  Stored = 1
  Entities = {e1}
  NoEntity = NoEntity
  Texts = {t1}
  UserEdgeTypes = {}
  SnapshotTargets = FALSE
  SnapshotSources = FALSE
  ClockSteps = {1}
  MaxCalls = 3
  MaxFaults = 0
  MaxSnaps = 2
  MaxForget = 2
  Ttl = 1
  SweepBatch = 3
  RecallWidth = 1
  None = None
CHECK_DEADLOCK FALSE
INVARIANTS
  ForgottenSourcesMarked
  TemporalAgreement
  AssocAgreement
