SPECIFICATION VaultSpec
CONSTANTS
  f1 = f1  f2 = f2  h1 = h1  h2 = h2  b1 = b1  b2 = b2
  Files = {f1}  Texts <- MCTexts  Hollow <- MCHollow  Large <- MCLarge  Blank = Blank  Indexers = {}
  MaxEdits = 2  MaxRuns = 2  MaxStops = 0
INVARIANT MissingDeleted
CHECK_DEADLOCK FALSE
