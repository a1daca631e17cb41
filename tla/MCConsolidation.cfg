SPECIFICATION MCSpec
CONSTANTS
  m1 = m1  m2 = m2  e1 = e1  e2 = e2  t1 = t1  t2 = t2
  Episodes = {m1, m2}  Entity <- MCEntity  NoEntity = NoEntity
  Tenant <- MCTenant  Tenants = {t1}  Default = t1
  SessionIds = {s1}  Calls = {c1, c2}  MinMemories = 2  MaxMemories = 2  MinCluster = 2
  Ttl = 2  Scopes = {"global"}  Sinces = {0}  MaxClock = 2  MaxInsights = 1
  Memories = {m1, m2}  PendingIds = {p1, p2}  Reviewers = {c1, c2}  MaxVerdicts = 2
  MaxIds = 3  Callers = {c1, c2}  Points <- MCPoints  Layers = {0, 1}  M = 1  MMax = 2  MaxOps = 4  None = None
SYMMETRY MCSymmetry
INVARIANTS
  SessionsHonest EntityAgrees BehindCursorAccounted
  ConfirmedLinked FlaggedAccounted
  GraphSound GraphFollowsDisk UnrevisedFound
CHECK_DEADLOCK FALSE
