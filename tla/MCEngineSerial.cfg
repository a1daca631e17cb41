SPECIFICATION Spec
CONSTANTS
  Clients = {c1}
  Menu <- MCMenu
  MaxIds = 4
  Stored = 1
  Entities = {e1}
  NoEntity = NoEntity
  Texts = {t1, t2}
  UserEdgeTypes = {}
  SnapshotTargets = FALSE
  SnapshotSources = FALSE
  ClockSteps = {1}
  MaxCalls = 3
  MaxFaults = 1
  MaxSnaps = 1
  MaxForget = 2
  Ttl = 2
  SweepBatch = 2
  RecallWidth = 1
  None = None
CHECK_DEADLOCK FALSE
INVARIANTS
  StoresAgree
PROPERTY
  ImplementsService
