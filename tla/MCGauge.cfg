SPECIFICATION ServerSpec
CONSTANTS
  m1 = m1
  t1 = t1
  s1 = s1
  s2 = s2
  Subs = {s1}
  MaxSubscriptions = 1
  Memories = {m1}
  Stored = {}
  Scoped = {m1}
  Topics = {t1}
  Topic <- MCTopic
  Chunks <- MCChunks
  MinTokens = 3
  MinFlush = 2
  InputCap = 1
  NotifyCap = 1
  OutCap = 1
  TopK = 1
  RefreshCount = 1
  FalsePositives = TRUE
  EmbedFails = TRUE
  MaxFeeds = 1
  MaxSignals = 0
  CanShutdown = TRUE
  StreamCap = 1
  Ranged = {m1}
  Rank <- MCRank
  ScanCap = 1
  MaxScanFails = 0
  RefreshTimer = FALSE
  None = None
CHECK_DEADLOCK FALSE
INVARIANTS
  GaugeCountsStreams
