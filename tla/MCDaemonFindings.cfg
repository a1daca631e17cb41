\* Each of the three is violated; -continue shows them all.
SPECIFICATION MCSpec
CONSTANTS
  Daemons = {d1}  Programs = {p1}  Vaults = {v1, v2}  Clients = {c1}  MaxOpen = 1
  Casts <- MCCasts  CommandsAsked = {"recall", "index"}  LocalAsked = {"index", "rebuild"}
  w1 = w1  w2 = w2  VaultsShown = {w1, w2}  Requests = {r1}  Memories = {m1}  Listed = {m1}
  MinNodes = 1  MaxChanges = 3  RoutesAsked = {"queries", "query"}
INVARIANTS RefusedByAnother SyncedStored QueriesFound
CHECK_DEADLOCK FALSE
