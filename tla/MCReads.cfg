SPECIFICATION MCSpec
CONSTANTS
  default = default  acme = acme  joe = joe  x = x  y = y  None = None
  Tenants = {default, acme}
  Default = default
  Entities = {joe}
  Texts = {x, y}
  Near <- MCNear
  MaxIds = 3
  MaxWrites = 1
  TopK = 2
  Oversample = 2
  PrimeMax = 4
  Window = 3
  Menus <- MCMenus
  Drafts <- MCDrafts
  Nodes <- MCNodes  Types <- MCTypes  MaxDepth = 2  MaxResults = 2  MaxChanges = 1
  FirstEdges <- WalkEdges  Snapshots <- Neighborhoods  Percent = 65  MinClusterSize = 2
INVARIANTS
  AnswersTrue
  PrimeNewest
  PagesComplete
  WalkExact
  ClustersExact
CHECK_DEADLOCK FALSE
