SPECIFICATION Spec
CONSTANTS
  m1 = m1
  m2 = m2
  m3 = m3
  t1 = t1
  t2 = t2
  s1 = s1
  Subs = {s1}
  MaxSubscriptions = 1
  Memories = {m1, m2, m3}
  Stored = {}
  Scoped = {m1, m2, m3}
  Topics = {t1, t2}
  Topic <- FilterTopic
  Chunks <- MCChunks
  MinTokens = 3
  MinFlush = 2
  InputCap = 1
  NotifyCap = 1
  OutCap = 1
  TopK = 1
  RefreshCount = 2
  FalsePositives = FALSE
  EmbedFails = FALSE
  MaxFeeds = 0
  MaxSignals = 0
  CanShutdown = FALSE
  RefreshTimer = TRUE
  Ranged = {m1, m2, m3}
  Rank <- FilterRank
  ScanCap = 2
  MaxScanFails = 1
  None = None
CHECK_DEADLOCK FALSE
INVARIANTS
  FilterLag
PROPERTIES
  FilterCatchesUp
