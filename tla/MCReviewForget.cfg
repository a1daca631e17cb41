SPECIFICATION MCSpec
CONSTANTS
  m1 = m1  m2 = m2  e1 = e1  e2 = e2  t1 = t1  t2 = t2
  Episodes = {}  Entity <- MCNone  NoEntity = NoEntity
  Tenant <- MCNone  Tenants = {t1}  Default = t1
  SessionIds = {}  Calls = {}  MinMemories = 1  MaxMemories = 1  MinCluster = 1
  Ttl = 2  Scopes = {"global"}  Sinces = {0}  MaxClock = 1  MaxInsights = 1
  Memories = {m1, m2}  PendingIds = {p1}  Reviewers = {c1}  MaxVerdicts = 1
  MaxIds = 1  Callers = {}  Points <- MCPoints  Layers = {0, 1}  M = 1  MMax = 2  MaxOps = 0  None = None
INVARIANT OnlyNamedForgotten
CHECK_DEADLOCK FALSE
