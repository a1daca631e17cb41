SPECIFICATION Spec
CONSTANTS
  m1 = m1
  m2 = m2
  m3 = m3
  t1 = t1
  t2 = t2
  s1 = s1
  Subs = {s1}
  MaxSubscriptions = 1
  Memories = {m1, m2}
  Stored = {m1}
  Scoped = {m1, m2}
  Topics = {t1, t2}
  Topic <- MCTopic
  Chunks <- MCChunks
  MinTokens = 3
  MinFlush = 2
  InputCap = 1
  NotifyCap = 1
  OutCap = 2
  TopK = 1
  RefreshCount = 1
  FalsePositives = FALSE
  EmbedFails = FALSE
  MaxFeeds = 2
  MaxSignals = 2
  CanShutdown = TRUE
  RefreshTimer = TRUE
  Ranged = {m1, m2}
  Rank <- MCRank
  ScanCap = 2
  MaxScanFails = 0
  None = None
CONSTRAINT ShutdownBound
CHECK_DEADLOCK FALSE
INVARIANTS
  NoRepeat
  NewestKept
  LastSignalWins
