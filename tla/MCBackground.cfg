SPECIFICATION MCSpec
CONSTANTS
  Threads = {w1, w2}  MaxBatches = 2  MaxQueue = 4  MaxSignals = 2
  f1 = f1  h1 = h1  b1 = b1  Blank = Blank  Indexers = {i1}
INVARIANTS NoStrayWorker SignalsObeyed
PROPERTIES StopEnds Settles
CHECK_DEADLOCK FALSE
