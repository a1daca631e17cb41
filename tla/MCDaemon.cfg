SPECIFICATION MCSpec
CONSTANTS
  Daemons = {d1, d2}  Programs = {p1, p2}  Vaults = {v1, v2}  Clients = {c1}  MaxOpen = 1
  Casts <- MCCasts  CommandsAsked = {"status", "prime"}  LocalAsked = {"index", "rebuild"}
  w1 = w1  w2 = w2  VaultsShown = {w1, w2}  Requests = {r1, r2}  Memories = {m1}  Listed = {m1}
  MinNodes = 1  MaxChanges = 1
  RoutesAsked = {"graph", "switch", "pin", "unpin", "reinforce", "dismiss", "status"}
SYMMETRY MCSymmetry
INVARIANTS ClaimGuards WorkersOfOpenVaults HandlesCurrent PinsShown
CHECK_DEADLOCK FALSE
