SPECIFICATION MCSpec
CONSTANTS
  m1 = m1  m2 = m2  e1 = e1  e2 = e2  t1 = t1  t2 = t2
  Episodes = {m1, m2}  Entity <- MCEntity  NoEntity = NoEntity
  Tenant <- MCOtherTenant  Tenants = {t1, t2}  Default = t1
  SessionIds = {s1}  Calls = {c1}  MinMemories = 1  MaxMemories = 2  MinCluster = 1
  Ttl = 2  Scopes = {"global"}  Sinces = {0}  MaxClock = 2  MaxInsights = 1
  Memories = {}  PendingIds = {}  Reviewers = {}  MaxVerdicts = 1
  MaxIds = 1  Callers = {}  Points <- MCPoints  Layers = {0, 1}  M = 1  MMax = 2  MaxOps = 0  None = None
INVARIANT InsightsStayInTenant
CHECK_DEADLOCK FALSE
